---- MODULE Spec2Model ----
(***************************************************************************)
(* Synthetic firmware generator (armgen/oracle/firmware): the layout       *)
(* engine (layout.py), the per-image assembler and the batch orchestration *)
(* (build_firmware.py), over the ISA-family database (config.py) and the   *)
(* blob index (extractor.py).                                              *)
(*                                                                         *)
(* Spec      : one call of LayoutEngine.generate_layout followed by two    *)
(*             runs of generate_single_image on the returned layout.       *)
(* SpecBatch : LayoutEngine.generate_batch (phase 1, phase 2, shuffle).    *)
(*                                                                         *)
(* random.Random(seed) is a deterministic stream: the model puts a 16-bit  *)
(* linear congruential generator in the place of the Mersenne Twister and  *)
(* takes every draw of the code, in the code's order, from it.  The seeds  *)
(* are inputs.                                                             *)
(***************************************************************************)
EXTENDS Integers, Sequences, FiniteSets, TLC

VARIABLES
    blob_index,   \* BlobIndex._blobs_by_family: family -> <<size_bytes, ...>>
    config,       \* FirmwareGenConfig
    call,         \* arguments of the running generate_layout call
    rng,          \* state of the random.Random passed to generate_layout
    pc,           \* position of the control flow
    loc,          \* locals of generate_layout
    layout,       \* the ImageLayout returned by generate_layout
    asm,          \* generate_single_image: per run, the image and the sidecar
    batch,        \* locals of generate_batch
    executor,     \* main, phase 4: the worker pool and the manifest builder
    extraction    \* BlobExtractor.extract_all: the worker pool and its counts

vars == <<blob_index, config, call, rng, pc, loc, layout, asm, batch,
          executor, extraction>>

\* the state of the two stages that run on a process pool
stages == <<executor, extraction>>

None == "None"

\* no pool is running
NoExecutor == [phase |-> None]

\* extract_all is not running
NoExtraction == [phase |-> None]

Min(a, b) == IF a <= b THEN a ELSE b
Max(a, b) == IF a >= b THEN a ELSE b

RECURSIVE SumSeq(_)
SumSeq(s) == IF s = <<>> THEN 0 ELSE Head(s) + SumSeq(Tail(s))

SeqToSet(s) == {s[i] : i \in 1..Len(s)}

-----------------------------------------------------------------------------
(* Bounds of the model                                                     *)

\* blobs indexed per family (a prefix of the family's catalogue)
MaxBlobs == 3
\* config.max_size is at most MaxPages * 256 bytes
MaxPages == 3
\* generate_layout is called with seq in 0..MaxSeq
MaxSeq == 6

-----------------------------------------------------------------------------
(* config.py: the ISA-family database                                      *)

IsaFamily(al, hts) == [alignment |-> al, header_types |-> hts]

ISA_FAMILIES ==
    [ arm32       |-> IsaFamily(4, <<"vector_table_arm", "uboot", "android_boot", "bare">>),
      thumb       |-> IsaFamily(2, <<"vector_table_cortexm", "bare">>),
      aarch64     |-> IsaFamily(4, <<"uboot", "android_boot", "bare">>),
      x86         |-> IsaFamily(1, <<"bios_boot", "uefi_stub", "bare">>),
      x86_64      |-> IsaFamily(1, <<"uefi_stub", "bios_boot", "uboot", "bare">>),
      riscv32     |-> IsaFamily(4, <<"opensbi_stub", "uboot", "bare">>),
      riscv64     |-> IsaFamily(4, <<"opensbi_stub", "uboot", "bare">>),
      mips32_be   |-> IsaFamily(4, <<"boot_vector_mips", "uboot", "tplink", "bare">>),
      mips32_le   |-> IsaFamily(4, <<"boot_vector_mips", "uboot", "tplink", "bare">>),
      mips64_be   |-> IsaFamily(4, <<"boot_vector_mips", "uboot", "bare">>),
      mips64_le   |-> IsaFamily(4, <<"boot_vector_mips", "uboot", "bare">>),
      ppc32       |-> IsaFamily(4, <<"uboot", "bare">>),
      ppc64_be    |-> IsaFamily(4, <<"uboot", "bare">>),
      ppc64_le    |-> IsaFamily(4, <<"uboot", "bare">>),
      sparc32     |-> IsaFamily(4, <<"uboot", "bare">>),
      sparc64     |-> IsaFamily(4, <<"uboot", "bare">>),
      s390x       |-> IsaFamily(4, <<"uboot", "bare">>),
      loongarch64 |-> IsaFamily(4, <<"uboot", "bare">>),
      avr         |-> IsaFamily(2, <<"avr_vector_table", "bare">>),
      msp430      |-> IsaFamily(2, <<"msp430_vector_table", "bare">>),
      hexagon     |-> IsaFamily(4, <<"qualcomm_mbn", "bare">>) ]

\* MULTI_ISA_AFFINITY: primary -> <<(secondary, weight)>>; the weights are
\* doubled (0.5 -> 1) to stay integers, which leaves every weighted choice
\* unchanged.
MULTI_ISA_AFFINITY ==
    [ arm32     |-> << <<"thumb", 6>>, <<"aarch64", 2>> >>,
      thumb     |-> << <<"arm32", 6>> >>,
      aarch64   |-> << <<"arm32", 4>>, <<"thumb", 2>> >>,
      x86_64    |-> << <<"x86", 4>>, <<"arm32", 2>> >>,
      x86       |-> << <<"x86_64", 2>> >>,
      mips32_be |-> << <<"mips32_le", 1>> >>,
      mips32_le |-> << <<"mips32_be", 1>> >>,
      mips64_be |-> << <<"mips32_be", 4>> >>,
      mips64_le |-> << <<"mips32_le", 4>> >>,
      riscv64   |-> << <<"riscv32", 4>> >>,
      riscv32   |-> << <<"riscv64", 2>> >>,
      ppc64_be  |-> << <<"ppc32", 2>> >>,
      ppc64_le  |-> << <<"ppc32", 1>> >>,
      hexagon   |-> << <<"arm32", 4>>, <<"aarch64", 2>> >> ]

\* Python's order on the family names (sorted() in BlobIndex.families and
\* ImageLayout.isa_label): position in this list.
SortedNames ==
    << "aarch64", "arm32", "avr", "hexagon", "loongarch64", "mips32_be",
       "mips32_le", "mips64_be", "mips64_le", "msp430", "ppc32", "ppc64_be",
       "ppc64_le", "riscv32", "riscv64", "s390x", "sparc32", "sparc64",
       "thumb", "x86", "x86_64" >>

\* sorted(names), for a set of names
SortedSeq(S) == SelectSeq(SortedNames, LAMBDA f : f \in S)

-----------------------------------------------------------------------------
(* layout.py: tables and helpers                                           *)

_NON_CODE_WEIGHTS ==
    << <<"padding", 40>>, <<"string_table", 15>>, <<"filesystem", 10>>,
       <<"random", 20>>, <<"rodata", 15>> >>

_TRAILER_WEIGHTS ==
    << <<"crc32", 40>>, <<"md5", 20>>, <<"sha256", 10>>, <<"none", 30>> >>

_TRAILER_SIZES == [crc32 |-> 4, md5 |-> 16, sha256 |-> 32, none |-> 0]

header_sizes ==
    [ vector_table_cortexm |-> 64, vector_table_arm |-> 32,
      boot_vector_mips |-> 32, avr_vector_table |-> 128,
      msp430_vector_table |-> 32, uboot |-> 64, android_boot |-> 2048,
      tplink |-> 512, mediatek |-> 1024, qualcomm_mbn |-> 40,
      bios_boot |-> 512, uefi_stub |-> 512, opensbi_stub |-> 48, bare |-> 0 ]

-----------------------------------------------------------------------------
(* random.Random                                                           *)

\* one step of the generator; the new state is also the value drawn, read
\* as the fraction state / 65536 of [0, 1)
Advance(s) == (25173 * s + 13849) % 65536

\* Random(seed)
Random(seed) == Advance(Advance(seed % 65536))

\* int(random() * n), for a drawn value u: floor(u * n / 65536), computed in
\* two parts to stay within 32 bits
Below(u, n) == (n \div 65536) * u + ((n % 65536) * u) \div 65536

\* (a * b) % 65536 for a, b < 65536, computed in two parts to stay within
\* 32 bits
MulMod(a, b) == ((((a * (b \div 256)) % 256) * 256) + a * (b % 256)) % 65536

\* n steps of the generator as one map s |-> (m * s + c) % 65536: <<m, c>>,
\* by halving n
RECURSIVE Jump(_)
Jump(n) ==
    IF n = 0 THEN <<1, 0>>
    ELSE LET h == Jump(n \div 2)
             sq == <<MulMod(h[1], h[1]), (MulMod(h[1], h[2]) + h[2]) % 65536>>
         IN  IF n % 2 = 1
             THEN <<MulMod(25173, sq[1]), (MulMod(25173, sq[2]) + 13849) % 65536>>
             ELSE sq

\* the state after n draws
AdvanceN(s, n) == (MulMod(Jump(n)[1], s) + Jump(n)[2]) % 65536

\* rng.choice(seq)
Choice(u, seq) == seq[1 + Below(u, Len(seq))]

\* rng.randint(a, b)
Randint(u, a, b) == a + Below(u, b - a + 1)

\* rng.random() < percent / 100
RandomBelow(u, percent) == 100 * u < percent * 65536

\* _weighted_choice(rng, options), r = random() * total
RECURSIVE WeightedScan(_, _, _)
WeightedScan(options, r, cumulative) ==
    IF Len(options) = 1 THEN options[1][1]
    ELSE IF r <= 65536 * (cumulative + options[1][2]) THEN options[1][1]
    ELSE WeightedScan(Tail(options), r, cumulative + options[1][2])

_weighted_choice(u, options) ==
    WeightedScan(options, u * SumSeq([i \in 1..Len(options) |-> options[i][2]]), 0)

\* x & m for naturals
RECURSIVE BitAnd(_, _)
BitAnd(x, m) ==
    IF x = 0 \/ m = 0 THEN 0
    ELSE (x % 2) * (m % 2) + 2 * BitAnd(x \div 2, m \div 2)

\* no rounding at all
_align_up_not(value, alignment) == value

\* (value + alignment - 1) & ~(alignment - 1)
_align_up(value, alignment) ==
    IF alignment <= 1 THEN value
    ELSE (value + alignment - 1) - BitAnd(value + alignment - 1, alignment - 1)

-----------------------------------------------------------------------------
(* extractor.py: the blob index                                            *)

\* size_bytes of the blobs a scan may find, per family directory, in path
\* order (ARM code is a multiple of 4 bytes, Thumb and AVR of 2, x86 of 1)
BlobCatalogue ==
    [ arm32 |-> <<100, 300, 64>>,
      thumb |-> <<50, 130, 6>>,
      x86   |-> <<37, 3>>,
      avr   |-> <<20, 44>> ]

IndexFamilySets == (SUBSET (DOMAIN BlobCatalogue)) \ {{}}

\* BlobIndex._scan: the families found, each with its non-empty blobs
BlobIndexes ==
    { [f \in D |-> SubSeq(BlobCatalogue[f], 1, Min(MaxBlobs, Len(BlobCatalogue[f])))] :
        D \in IndexFamilySets }

\* BlobIndex.families
families == SortedSeq(DOMAIN blob_index)

\* BlobIndex.blob_count
blob_count(family) ==
    IF family \in DOMAIN blob_index THEN Len(blob_index[family]) ELSE 0

\* BlobIndex.get_blobs
get_blobs(family) ==
    IF family \in DOMAIN blob_index THEN blob_index[family] ELSE <<>>

-----------------------------------------------------------------------------
(* layout.py: LayoutEngine                                                 *)

\* LayoutEngine.__init__: (family, float(count)) for the indexed families
\* of the database that have blobs
_family_weights ==
    LET kept == SelectSeq(families,
                    LAMBDA f : f \in DOMAIN ISA_FAMILIES /\ blob_count(f) > 0)
    IN  [i \in 1..Len(kept) |-> <<kept[i], blob_count(kept[i])>>]

\* the value and the generator state a drawing function returns
Drawn(v, r) == [v |-> v, rng |-> r]

\* the secondaries drawn from the whole affinity list, blobs or not
_pick_secondary_isas_unfiltered(primary, r) ==
    LET affinity == IF primary \in DOMAIN MULTI_ISA_AFFINITY
                    THEN MULTI_ISA_AFFINITY[primary] ELSE <<>>
        others == SelectSeq(_family_weights, LAMBDA e : e[1] # primary)
        fallback == [i \in 1..Len(others) |-> <<others[i][1], 1>>]
        pool == IF affinity = <<>> THEN fallback ELSE affinity
        u1 == Advance(r)
        count == Choice(u1, <<1, 1, 2>>)
        u2 == Advance(u1)
        pick1 == _weighted_choice(u2, pool)
        pool1 == SelectSeq(pool, LAMBDA e : e[1] # pick1)
        u3 == Advance(u2)
    IN  IF pool = <<>> THEN Drawn(<<>>, r)
        ELSE IF Min(count, Len(pool)) = 1 \/ pool1 = <<>> THEN Drawn(<<pick1>>, u2)
        ELSE Drawn(<<pick1, _weighted_choice(u3, pool1)>>, u3)

\* _pick_secondary_isas(primary, rng)
_pick_secondary_isas(primary, r) ==
    LET affinity == IF primary \in DOMAIN MULTI_ISA_AFFINITY
                    THEN MULTI_ISA_AFFINITY[primary] ELSE <<>>
        available == SelectSeq(affinity, LAMBDA e : blob_count(e[1]) > 0)
        others == SelectSeq(_family_weights, LAMBDA e : e[1] # primary)
        fallback == [i \in 1..Len(others) |-> <<others[i][1], 1>>]
        pool == IF available = <<>> THEN fallback ELSE available
        u1 == Advance(r)
        count == Choice(u1, <<1, 1, 2>>)
        u2 == Advance(u1)
        pick1 == _weighted_choice(u2, pool)
        pool1 == SelectSeq(pool, LAMBDA e : e[1] # pick1)
        u3 == Advance(u2)
    IN  IF pool = <<>> THEN Drawn(<<>>, r)
        ELSE IF Min(count, Len(pool)) = 1 \/ pool1 = <<>> THEN Drawn(<<pick1>>, u2)
        ELSE Drawn(<<pick1, _weighted_choice(u3, pool1)>>, u3)

\* _pick_header_type(family, rng)
_pick_header_type(family, r) ==
    IF family \notin DOMAIN ISA_FAMILIES \/ ISA_FAMILIES[family].header_types = <<>>
    THEN Drawn("bare", r)
    ELSE Drawn(Choice(Advance(r), ISA_FAMILIES[family].header_types), Advance(r))

\* _pick_total_size(rng): int(2 ** uniform(log2 min, log2 max)) lies in
\* [min_size, max_size]; the model spreads the draw evenly over that range
_pick_total_size(u) ==
    _align_up(Randint(u, config.min_size, config.max_size), 256)

HexDigits == <<"0", "1", "2", "3", "4", "5", "6", "7", "8", "9",
               "A", "B", "C", "D", "E", "F">>

\* f"0x{pattern:02X}"
PatternName(pattern) ==
    "0x" \o HexDigits[(pattern \div 16) + 1] \o HexDigits[(pattern % 16) + 1]

\* _pick_non_code_section(rng, max_size): type, size, params (and the
\* generator state after its draws)
_pick_non_code_section(r, max_size) ==
    LET u1 == Advance(r)
        t == _weighted_choice(u1, _NON_CODE_WEIGHTS)
        u2 == Advance(u1)
        u3 == Advance(u2)
        Pick(sz, p, rr) == [type |-> t, size |-> sz, params |-> p, rng |-> rr]
        pad_max == Max(16, Min(Min(max_size, 65536), Max(64, max_size \div 10)))
        pattern == Choice(u3, <<255, 0, 170, 222>>)
    IN  CASE t = "padding" ->
               Pick(Randint(u2, 16, pad_max),
                    [pattern |-> PatternName(pattern), fill_byte |-> pattern], u3)
          [] t = "string_table" ->
               Pick(Randint(u2, 64, Max(64, Min(4096, max_size))),
                    [source |-> "generated"], u2)
          [] t = "filesystem" ->
               Pick(Randint(u2, 512, Max(512, Min(65536, max_size))),
                    [fs_type |-> Choice(u3, <<"squashfs", "jffs2", "cramfs", "romfs">>)], u3)
          [] t = "random" ->
               Pick(Randint(u2, 32, Max(32, Min(8192, max_size))),
                    [source |-> "random"], u2)
          [] t = "rodata" ->
               Pick(Randint(u2, 64, Max(64, Min(16384, max_size))),
                    [source |-> "generated"], u2)
          [] OTHER ->
               Pick(Randint(u2, 16, Max(16, Min(1024, max_size))),
                    [source |-> None], u2)

\* SectionSpec
SectionSpec(offset, size, section_type, alignment, isa_family, fill_params) ==
    [ offset |-> offset, size |-> size, section_type |-> section_type,
      alignment |-> alignment, isa_family |-> isa_family,
      fill_params |-> fill_params ]

-----------------------------------------------------------------------------
(* layout.py: LayoutEngine.generate_layout                                 *)

\* forced_secondaries = None (a list otherwise)
NoList == <<None>>

NoLoc ==
    [ primary_isa |-> None, all_families |-> <<>>, header_type |-> None,
      trailer_type |-> None, trailer_size |-> 0, total_size |-> 0,
      sections |-> <<>>, cursor |-> 0, code_remaining |-> 0,
      noncode_budget |-> 0, family_queue |-> <<>> ]

NoLayout ==
    [ image_id |-> None, total_size |-> 0, primary_isa |-> None,
      header_type |-> None, trailer_type |-> None, sections |-> <<>>,
      all_isa_families |-> <<>>, seed |-> 0 ]

\* 1: pick primary ISA (or use the provided one)
PrimaryIsa(primary_isa, r) ==
    IF primary_isa = None
    THEN Drawn(_weighted_choice(Advance(r), _family_weights), Advance(r))
    ELSE Drawn(primary_isa, r)

\* the secondaries alone when there are any, the primary left out of the list
AllFamiliesSecondariesOnly(primary, forced_secondaries, r) ==
    IF forced_secondaries # NoList
    THEN Drawn(IF forced_secondaries = <<>> THEN <<primary>> ELSE forced_secondaries, r)
    ELSE IF RandomBelow(Advance(r), config.multi_isa_probability)
         THEN LET sec == _pick_secondary_isas(primary, Advance(r))
              IN  Drawn(IF sec.v = <<>> THEN <<primary>> ELSE sec.v, sec.rng)
         ELSE Drawn(<<primary>>, Advance(r))

\* the multi-ISA decision left to the generator whatever the caller forces
AllFamiliesUnforced(primary, forced_secondaries, r) ==
    IF RandomBelow(Advance(r), config.multi_isa_probability)
    THEN LET sec == _pick_secondary_isas(primary, Advance(r))
         IN  Drawn(<<primary>> \o sec.v, sec.rng)
    ELSE Drawn(<<primary>>, Advance(r))

\* 2: decide multi-ISA
AllFamilies(primary, forced_secondaries, r) ==
    IF forced_secondaries # NoList
    THEN Drawn(<<primary>> \o forced_secondaries, r)
    ELSE IF RandomBelow(Advance(r), config.multi_isa_probability)
         THEN LET sec == _pick_secondary_isas(primary, Advance(r))
              IN  Drawn(<<primary>> \o sec.v, sec.rng)
         ELSE Drawn(<<primary>>, Advance(r))

PickIsa ==
    /\ pc = "pick_isa"
    /\ LET primary == PrimaryIsa(call.primary_isa, rng)
           all == AllFamilies(primary.v, call.forced_secondaries, primary.rng)
       IN  /\ loc' = [loc EXCEPT !.primary_isa = primary.v, !.all_families = all.v]
           /\ rng' = all.rng
    /\ pc' = "pick_header"
    /\ UNCHANGED <<blob_index, config, call, layout, asm, batch, stages>>

\* header_sizes.get(header_type, 64)
HeaderSize(header_type) ==
    IF header_type \in DOMAIN header_sizes THEN header_sizes[header_type] ELSE 64

\* a header placeholder appended whatever its size
HeaderSectionsAlways(header_type, header_size) ==
    << SectionSpec(0, header_size, "header", 1, None,
                   [header_type |-> header_type]) >>

\* 5a: the header placeholder
HeaderSections(header_type, header_size) ==
    IF header_size > 0
    THEN << SectionSpec(0, header_size, "header", 1, None,
                        [header_type |-> header_type]) >>
    ELSE <<>>

\* 3-5a: header and trailer type, total size, header placeholder
PickHeaderTrailerSize ==
    /\ pc = "pick_header"
    /\ LET header == _pick_header_type(loc.primary_isa, rng)
           u1 == Advance(header.rng)
           trailer_type == _weighted_choice(u1, _TRAILER_WEIGHTS)
           u2 == Advance(u1)
           header_size == HeaderSize(header.v)
       IN  /\ loc' = [loc EXCEPT !.header_type = header.v,
                        !.trailer_type = trailer_type,
                        !.trailer_size = _TRAILER_SIZES[trailer_type],
                        !.total_size = _pick_total_size(u2),
                        !.sections = HeaderSections(header.v, header_size),
                        !.cursor = header_size]
           /\ rng' = u2
    /\ pc' = "budget"
    /\ UNCHANGED <<blob_index, config, call, layout, asm, batch, stages>>

\* int(usable_size * rng.uniform(0.30, 0.70)), uniform(a, b) = a + (b - a) * random(),
\* the fraction kept to four decimals
CodeBudget(usable_size, u) ==
    (usable_size * (3000 + ((4000 * u) \div 65536))) \div 10000

\* the total size left as picked
ExtendedTotalKept(total_size, cursor, trailer_size) == total_size

\* the total size after the extension of an image too small for content
ExtendedTotal(total_size, cursor, trailer_size) ==
    IF total_size - cursor - trailer_size < 64
    THEN cursor + trailer_size + 256
    ELSE total_size

\* 5b: budget code vs non-code
BudgetCode ==
    /\ pc = "budget"
    /\ LET usable0 == loc.total_size - loc.cursor - loc.trailer_size
           usable_size == IF usable0 < 64 THEN 256 ELSE usable0
           code_budget == CodeBudget(usable_size, Advance(rng))
       IN  loc' = [loc EXCEPT
                     !.total_size = ExtendedTotal(loc.total_size, loc.cursor,
                                                  loc.trailer_size),
                     !.code_remaining = code_budget,
                     !.noncode_budget = usable_size - code_budget,
                     !.family_queue = loc.all_families]
    /\ rng' = Advance(rng)
    /\ pc' = "code_loop"
    /\ UNCHANGED <<blob_index, config, call, layout, asm, batch, stages>>

\* the default alignment for every family
FamilyAlignmentDefault(fam) == 4

\* fam_info.alignment if fam_info else 4
FamilyAlignment(fam) ==
    IF fam \in DOMAIN ISA_FAMILIES THEN ISA_FAMILIES[fam].alignment ELSE 4

\* the section size rounded up to the alignment and left there
CodeSectionSizeRounded(blob_size, multiplier, code_remaining, alignment) ==
    LET s1 == Min(blob_size * multiplier, code_remaining)
        s2 == Max(s1, Min(blob_size, code_remaining))
    IN  _align_up(s2, alignment)

\* section size of a code section: blob size, repeated or truncated
CodeSectionSize(blob_size, multiplier, code_remaining, alignment) ==
    LET s1 == Min(blob_size * multiplier, code_remaining)
        s2 == Max(s1, Min(blob_size, code_remaining))
        s3 == _align_up(s2, alignment)
    IN  IF s3 > code_remaining THEN code_remaining ELSE s3

\* the alignment padding inserted before a code section
AlignmentPadding(cursor, alignment) ==
    LET aligned_cursor == _align_up(cursor, alignment)
    IN  IF aligned_cursor > cursor
        THEN << SectionSpec(cursor, aligned_cursor - cursor, "padding", 1, None,
                            [pattern |-> "0xFF", fill_byte |-> 255]) >>
        ELSE <<>>

\* the size of a non-code section placed between code sections
InterleavedSize(nc_size, noncode_budget) == Min(nc_size, noncode_budget)

\* the queue left as it is
RotateNot(family_queue) == family_queue

\* family_queue.append(family_queue.pop(0))
Rotate(family_queue) == Tail(family_queue) \o <<family_queue[1]>>

\* the queue with the family without blobs kept
WithoutFamilyKept(family_queue, fam) == family_queue

\* [f for f in family_queue if f != fam]
WithoutFamily(family_queue, fam) == SelectSeq(family_queue, LAMBDA f : f # fam)

\* 5c: one iteration of the code-section loop
CodeLoopBody ==
    /\ pc = "code_loop"
    /\ loc.code_remaining >= 64
    /\ LET fam == loc.family_queue[1]
           rotated == Rotate(loc.family_queue)
           alignment == FamilyAlignment(fam)
           blobs == get_blobs(fam)
           kept == WithoutFamily(rotated, fam)
           u1 == Advance(rng)
           blob == 1 + Below(u1, Len(blobs))
           u2 == Advance(u1)
           multiplier == Choice(u2, <<1, 1, 1, 2, 3>>)
           section_size == CodeSectionSize(blobs[blob], multiplier,
                                           loc.code_remaining, alignment)
           pad == AlignmentPadding(loc.cursor, alignment)
           at == _align_up(loc.cursor, alignment)
           code == SectionSpec(at, section_size, "code", alignment, fam,
                               [blob_family |-> fam, blob |-> blob])
           after == at + section_size
           u3 == Advance(u2)
           interleave == RandomBelow(u3, 30) /\ loc.noncode_budget >= 64
           nc == _pick_non_code_section(u3, loc.noncode_budget)
           nc_size == InterleavedSize(nc.size, loc.noncode_budget)
       IN  IF blobs = <<>>
           THEN /\ loc' = [loc EXCEPT !.family_queue = kept]
                /\ rng' = rng
                /\ pc' = IF kept = <<>> THEN "fill_loop" ELSE "code_loop"
           ELSE IF section_size < 4
           THEN /\ loc' = [loc EXCEPT !.family_queue = rotated]
                /\ rng' = u2
                /\ pc' = "fill_loop"
           ELSE IF interleave
           THEN /\ loc' = [loc EXCEPT
                      !.family_queue = rotated,
                      !.sections = loc.sections \o pad \o
                          << code, SectionSpec(after, nc_size, nc.type, 1, None,
                                               nc.params) >>,
                      !.cursor = after + nc_size,
                      !.code_remaining = loc.code_remaining - section_size,
                      !.noncode_budget = loc.noncode_budget - nc_size]
                /\ rng' = nc.rng
                /\ pc' = "code_loop"
           ELSE /\ loc' = [loc EXCEPT
                      !.family_queue = rotated,
                      !.sections = loc.sections \o pad \o <<code>>,
                      !.cursor = after,
                      !.code_remaining = loc.code_remaining - section_size]
                /\ rng' = u3
                /\ pc' = "code_loop"
    /\ UNCHANGED <<blob_index, config, call, layout, asm, batch, stages>>

CodeLoopExit ==
    /\ pc = "code_loop"
    /\ loc.code_remaining < 64
    /\ pc' = "fill_loop"
    /\ UNCHANGED <<blob_index, config, call, rng, loc, layout, asm, batch, stages>>

\* 5d: one iteration of the non-code fill loop
FillLoopBody ==
    /\ pc = "fill_loop"
    /\ loc.noncode_budget >= 32
    /\ loc.cursor < loc.total_size - loc.trailer_size
    /\ LET nc == _pick_non_code_section(rng, loc.noncode_budget)
           nc_size == Min(Min(nc.size, loc.noncode_budget),
                          loc.total_size - loc.trailer_size - loc.cursor)
       IN  /\ rng' = nc.rng
           /\ IF nc_size < 16
              THEN /\ pc' = "finish"
                   /\ loc' = loc
              ELSE /\ loc' = [loc EXCEPT
                         !.sections = Append(loc.sections,
                             SectionSpec(loc.cursor, nc_size, nc.type, 1, None,
                                         nc.params)),
                         !.cursor = loc.cursor + nc_size,
                         !.noncode_budget = loc.noncode_budget - nc_size]
                   /\ pc' = "fill_loop"
    /\ UNCHANGED <<blob_index, config, call, layout, asm, batch, stages>>

FillLoopExit ==
    /\ pc = "fill_loop"
    /\ ~(loc.noncode_budget >= 32 /\ loc.cursor < loc.total_size - loc.trailer_size)
    /\ pc' = "finish"
    /\ UNCHANGED <<blob_index, config, call, rng, loc, layout, asm, batch, stages>>

\* a terminal padding that is also emitted for an empty gap
FinalPaddingAlways(cursor, gap) ==
    IF gap >= 0
    THEN << SectionSpec(cursor, gap, "padding", 1, None,
                        [pattern |-> "0xFF", fill_byte |-> 255]) >>
    ELSE <<>>

\* 5e: the terminal padding closing the gap before the trailer
FinalPadding(cursor, gap) ==
    IF gap > 0
    THEN << SectionSpec(cursor, gap, "padding", 1, None,
                        [pattern |-> "0xFF", fill_byte |-> 255]) >>
    ELSE <<>>

\* 5f: the trailer placeholder
TrailerSections(cursor, trailer_type, trailer_size) ==
    IF trailer_size > 0
    THEN << SectionSpec(cursor, trailer_size, "trailer", 1, None,
                        [trailer_type |-> trailer_type]) >>
    ELSE <<>>

\* f"{seq:06d}"
RECURSIVE ZeroPad(_, _)
ZeroPad(str, width) == IF Len(str) >= width THEN str ELSE ZeroPad("0" \o str, width)

\* an image_id without its sequence number
ImageIdOfSeedOnly(seed, seq) == "fw_" \o ToString(seed)

\* f"fw_{self.config.seed}_{seq:06d}"
ImageId(seed, seq) == "fw_" \o ToString(seed) \o "_" \o ZeroPad(ToString(seq), 6)

\* "+".join(names)
RECURSIVE Join(_)
Join(names) ==
    IF names = <<>> THEN ""
    ELSE IF Len(names) = 1 THEN names[1]
    ELSE names[1] \o "+" \o Join(Tail(names))

\* sorted(names): Python's order, duplicates kept
RECURSIVE Sorted(_)
Sorted(names) ==
    IF names = <<>> THEN <<>>
    ELSE LET i == CHOOSE i \in 1..Len(SortedNames) :
                    /\ SortedNames[i] \in SeqToSet(names)
                    /\ \A j \in 1..(i - 1) : SortedNames[j] \notin SeqToSet(names)
             first == SortedNames[i]
         IN  SelectSeq(names, LAMBDA f : f = first)
               \o Sorted(SelectSeq(names, LAMBDA f : f # first))

\* ImageLayout.isa_label
isa_label(lay) == Join(Sorted(lay.all_isa_families))

\* 5e-5f and the return
Finish ==
    /\ pc = "finish"
    /\ LET gap == loc.total_size - loc.trailer_size - loc.cursor
           pad == FinalPadding(loc.cursor, gap)
           cursor == IF gap > 0 THEN loc.cursor + gap ELSE loc.cursor
           trailer == TrailerSections(cursor, loc.trailer_type, loc.trailer_size)
       IN  layout' = [ image_id |-> ImageId(config.seed, call.seq),
                       total_size |-> loc.total_size,
                       primary_isa |-> loc.primary_isa,
                       header_type |-> loc.header_type,
                       trailer_type |-> loc.trailer_type,
                       sections |-> loc.sections \o pad \o trailer,
                       all_isa_families |-> loc.all_families,
                       seed |-> config.seed + call.seq ]
    /\ loc' = NoLoc
    /\ pc' = "returned"
    /\ UNCHANGED <<blob_index, config, call, rng, asm, batch, stages>>

-----------------------------------------------------------------------------
(* headers.py: header and trailer generators                               *)

\* HeaderResult: the length of data, the field read from the clock (0 when
\* the header has none) and the generator state after the header's draws;
\* the other bytes are determined by the header type, the layout and the
\* generator state on entry
HeaderResult(len, stamp, r) == [len |-> len, stamp |-> stamp, rng |-> r]

\* the 32-bit words rng.randbytes(n) takes from the generator
RandbytesDraws(n) == (n + 3) \div 4

vector_table_cortexm(r) ==
    LET num_vectors == Choice(Advance(r), <<16, 32, 48, 64>>)
    IN  HeaderResult(4 * num_vectors, 0, AdvanceN(r, 2 + (num_vectors - 2)))

vector_table_arm(r) == HeaderResult(4 * 8, 0, AdvanceN(r, 8))

boot_vector_mips(r) == HeaderResult(4 * 8, 0, r)

avr_vector_table(r) ==
    LET use_jmp == Choice(Advance(r), <<TRUE, FALSE>>)
        num_vectors == Choice(AdvanceN(r, 2), <<26, 35, 57>>)
        vec_size == IF use_jmp THEN 4 ELSE 2
    IN  HeaderResult(num_vectors * vec_size, 0, AdvanceN(r, 2 + num_vectors))

msp430_vector_table(r) == HeaderResult(2 * 16, 0, AdvanceN(r, 1 + 16))

\* timestamp = int(time.time()) - rng.randint(0, 365 * 24 * 3600), then
\* os_type, img_type, comp and name
uboot(r, now) ==
    LET timestamp == now - Randint(Advance(r), 0, 365 * 24 * 3600)
    IN  HeaderResult(64, timestamp, AdvanceN(r, 5))

\* header_version, cmdline, sha = rng.randbytes(32); data = header[:page_size]
android_boot(r) == HeaderResult(2048, 0, AdvanceN(r, 2 + RandbytesDraws(32)))

\* vendor, three version numbers, hardware id, rng.randbytes(16)
tplink(r) == HeaderResult(512, 0, AdvanceN(r, 5 + RandbytesDraws(16)))

mediatek(r) ==
    HeaderResult(Choice(Advance(r), <<512, 1024, 2048>>), 0, AdvanceN(r, 4))

qualcomm_mbn(r) == HeaderResult(4 * 10, 0, Advance(r))

bios_boot(r) == HeaderResult(512, 0, AdvanceN(r, 5))

\* the COFF TimeDateStamp is int(time.time())
uefi_stub(r, now) ==
    HeaderResult(Choice(Advance(r), <<512, 768, 1024>>), now, Advance(r))

opensbi_stub(r) == HeaderResult(48, 0, r)

bare(r) == HeaderResult(0, 0, r)

\* generate_header(header_type, endianness, rng, **kwargs) at clock time now
generate_header(header_type, r, now) ==
    CASE header_type = "vector_table_cortexm" -> vector_table_cortexm(r)
      [] header_type = "vector_table_arm" -> vector_table_arm(r)
      [] header_type = "boot_vector_mips" -> boot_vector_mips(r)
      [] header_type = "avr_vector_table" -> avr_vector_table(r)
      [] header_type = "msp430_vector_table" -> msp430_vector_table(r)
      [] header_type = "uboot" -> uboot(r, now)
      [] header_type = "android_boot" -> android_boot(r)
      [] header_type = "tplink" -> tplink(r)
      [] header_type = "mediatek" -> mediatek(r)
      [] header_type = "qualcomm_mbn" -> qualcomm_mbn(r)
      [] header_type = "bios_boot" -> bios_boot(r)
      [] header_type = "uefi_stub" -> uefi_stub(r, now)
      [] header_type = "opensbi_stub" -> opensbi_stub(r)
      [] header_type = "bare" -> bare(r)

-----------------------------------------------------------------------------
(* build_firmware.py: the image buffer                                     *)

\* The bytearray is kept as a sequence of runs.  A run is n bytes, from
\* offset off on, of the byte string that kind, name, key and stamp
\* determine:
\*   fill      n bytes of value key
\*   header    the header of type name generated from generator state key
\*             at clock time stamp
\*   blob      blob number key of family name
\*   strings, rodata, randbytes
\*             the bytes generated from generator state key
\*   magic     the magic of filesystem name
\*   digest    the trailer of type name over bytes of checksum key
Bytes(kind, name, key, stamp, n) ==
    [kind |-> kind, name |-> name, key |-> key, stamp |-> stamp, off |-> 0, n |-> n]

\* len(image)
Length(image) == SumSeq([i \in 1..Len(image) |-> image[i].n])

\* data[from : from + n] of one run
Part(e, from, n) ==
    [e EXCEPT !.off = IF e.kind = "fill" THEN 0 ELSE e.off + from, !.n = n]

\* image[:k]
RECURSIVE Prefix(_, _)
Prefix(image, k) ==
    IF k <= 0 \/ image = <<>> THEN <<>>
    ELSE IF image[1].n <= k
         THEN <<image[1]>> \o Prefix(Tail(image), k - image[1].n)
         ELSE <<Part(image[1], 0, k)>>

\* image[k:]
RECURSIVE Suffix(_, _)
Suffix(image, k) ==
    IF image = <<>> THEN <<>>
    ELSE IF k <= 0 THEN image
    ELSE IF image[1].n <= k THEN Suffix(Tail(image), k - image[1].n)
    ELSE <<Part(image[1], k, image[1].n - k)>> \o Tail(image)

\* image[a:b] = data on a bytearray: the slice is clipped to the buffer, and
\* data longer than the slice makes the buffer longer
SliceAssign(image, a, b, data) ==
    LET len == Length(image)
        start == Min(a, len)
        stop == Min(Max(b, start), len)
    IN  Prefix(image, start) \o SelectSeq(data, LAMBDA e : e.n > 0)
          \o Suffix(image, stop)

\* zlib.crc32, hashlib.md5, hashlib.sha256: a 16-bit checksum of the bytes
\* stands for all three
RECURSIVE Checksum(_, _)
Checksum(h, data) ==
    IF data = <<>> THEN h
    ELSE Checksum((31 * h + data[1].key + (data[1].stamp % 65536)
                     + data[1].off + data[1].n) % 65536, Tail(data))

\* byte lengths of the strings of _STRING_POOL
_STRING_POOL ==
    << 55, 31, 29, 30, 13, 11, 7, 7, 15, 11, 5, 6, 20, 25, 17, 23, 15, 20, 22,
       18, 17, 17, 15, 17, 28, 19, 33, 33 >>

\* byte lengths of the magics of _FS_MAGICS; .get(fs_type, 4 zero bytes)
_FS_MAGICS == [squashfs |-> 4, jffs2 |-> 2, cramfs |-> 4, romfs |-> 8]

\* _get_trailer_size(trailer_type)
_get_trailer_size(trailer_type) ==
    LET sizes == [crc32 |-> 4, md5 |-> 16, sha256 |-> 32, none |-> 0]
    IN  IF trailer_type \in DOMAIN sizes THEN sizes[trailer_type] ELSE 0

\* generate_trailer(trailer_type, image_data): the checksum and its length
generate_trailer(trailer_type, image_data) ==
    [ value |-> Checksum(0, image_data),
      len |-> CASE trailer_type = "crc32" -> 4
                [] trailer_type = "md5" -> 16
                [] trailer_type = "sha256" -> 32
                [] trailer_type = "none" -> 0 ]

-----------------------------------------------------------------------------
(* build_firmware.py: generate_single_image                                *)

\* an entry of actual_sections
ActualSection(offset, size, type, isa_family, detail, value) ==
    [ offset |-> offset, size |-> size, type |-> type, isa_family |-> isa_family,
      details |-> [name |-> detail, value |-> value] ]

\* the state of the loop over layout["sections"]
Assembly(image, r, actual_sections) ==
    [image |-> image, rng |-> r, actual_sections |-> actual_sections]

\* the code section: the blob, repeated until size bytes are written
RECURSIVE TileCode(_, _, _, _, _)
TileCode(image, offset, size, written, code_data) ==
    IF written >= size THEN image
    ELSE LET chunk == Part(code_data, 0, Min(code_data.n, size - written))
         IN  TileCode(SliceAssign(image, offset + written,
                                  offset + written + chunk.n, <<chunk>>),
                      offset, size, written + chunk.n, code_data)

\* the generator after  while len(buf) < size: buf.extend(rng.choice(pool))
RECURSIVE StringTableRng(_, _)
StringTableRng(r, missing) ==
    IF missing <= 0 THEN r
    ELSE StringTableRng(Advance(r), missing - Choice(Advance(r), _STRING_POOL))

\* the generator after the rodata loop: a pool string, or a 4-byte value
\* repeated randint(4, 32) times
RECURSIVE RodataRng(_, _)
RodataRng(r, missing) ==
    IF missing <= 0 THEN r
    ELSE LET u1 == Advance(r)
             u2 == Advance(u1)
             u3 == Advance(u2)
         IN  IF RandomBelow(u1, 50)
             THEN RodataRng(u2, missing - Choice(u2, _STRING_POOL))
             ELSE RodataRng(u3, missing - 4 * Randint(u3, 4, 32))

\* one iteration of the loop over layout["sections"]
WriteSection(st, lay, section, now) ==
    LET offset == section.offset
        size == section.size
        fill_params == section.fill_params
        sec_type == section.section_type
        result == generate_header(lay.header_type, st.rng, now)
        actual_size == Min(result.len, size)
        blob_size == get_blobs(section.isa_family)[fill_params.blob]
        magic == IF fill_params.fs_type \in DOMAIN _FS_MAGICS
                 THEN _FS_MAGICS[fill_params.fs_type] ELSE 4
        written == SliceAssign(st.image, offset, offset + magic,
                       <<Bytes("magic", fill_params.fs_type, 0, 0, magic)>>)
        Whole(kind, key) ==
            SliceAssign(st.image, offset, offset + size,
                        <<Bytes(kind, "", key, 0, size)>>)
    IN  CASE sec_type = "header" ->
               Assembly(SliceAssign(st.image, offset, offset + actual_size,
                            <<Bytes("header", lay.header_type, st.rng,
                                    result.stamp, actual_size)>>),
                        result.rng,
                        Append(st.actual_sections,
                               ActualSection(offset, actual_size, "header", None,
                                             lay.header_type, 0)))
          [] sec_type = "code" ->
               Assembly(TileCode(st.image, offset, size, 0,
                                 Bytes("blob", section.isa_family,
                                       fill_params.blob, 0, blob_size)),
                        st.rng,
                        Append(st.actual_sections,
                               ActualSection(offset, size, "code", section.isa_family,
                                             "blob", fill_params.blob)))
          [] sec_type = "padding" ->
               Assembly(Whole("fill", fill_params.fill_byte),
                        st.rng,
                        Append(st.actual_sections,
                               ActualSection(offset, size, "padding", None,
                                             fill_params.pattern, 0)))
          [] sec_type = "string_table" ->
               Assembly(Whole("strings", st.rng),
                        StringTableRng(st.rng, size),
                        Append(st.actual_sections,
                               ActualSection(offset, size, "string_table", None,
                                             "generated", 0)))
          [] sec_type = "filesystem" ->
               Assembly(SliceAssign(written, offset + magic, offset + size,
                            <<Bytes("randbytes", "", st.rng, 0, size - magic)>>),
                        AdvanceN(st.rng, RandbytesDraws(size - magic)),
                        Append(st.actual_sections,
                               ActualSection(offset, size, "filesystem", None,
                                             fill_params.fs_type, 0)))
          [] sec_type = "random" ->
               Assembly(Whole("randbytes", st.rng),
                        AdvanceN(st.rng, RandbytesDraws(size)),
                        Append(st.actual_sections,
                               ActualSection(offset, size, "random", None,
                                             "random", 0)))
          [] sec_type = "rodata" ->
               Assembly(Whole("rodata", st.rng),
                        RodataRng(st.rng, size),
                        Append(st.actual_sections,
                               ActualSection(offset, size, "rodata", None,
                                             "generated", 0)))
          [] sec_type = "trailer" -> st

\* the loop over layout["sections"]
RECURSIVE WriteSections(_, _, _, _)
WriteSections(st, lay, sections, now) ==
    IF sections = <<>> THEN st
    ELSE WriteSections(WriteSection(st, lay, Head(sections), now), lay,
                       Tail(sections), now)

\* compute and write the trailer
WriteTrailer(st, lay) ==
    LET trailer_offset == lay.total_size - _get_trailer_size(lay.trailer_type)
        pre_trailer == Prefix(st.image, trailer_offset)
        trailer_result == generate_trailer(lay.trailer_type, pre_trailer)
    IN  IF lay.trailer_type # "none"
        THEN Assembly(SliceAssign(st.image, trailer_offset,
                          trailer_offset + trailer_result.len,
                          <<Bytes("digest", lay.trailer_type, trailer_result.value,
                                  0, trailer_result.len)>>),
                      st.rng,
                      Append(st.actual_sections,
                             ActualSection(trailer_offset, trailer_result.len,
                                           "trailer", None, lay.trailer_type,
                                           trailer_result.value)))
        ELSE st

\* the metadata written to {image_id}.json; timestamp is the clock at the
\* time of writing, to the second
Metadata(lay, image, actual_sections, timestamp) ==
    LET code_sections == SelectSeq(actual_sections, LAMBDA s : s.type = "code")
    IN  [ image |-> [ id |-> lay.image_id,
                      path |-> isa_label(lay) \o "/" \o lay.image_id \o ".bin",
                      size_bytes |-> lay.total_size,
                      sha256 |-> Checksum(0, image) ],
          isa |-> [ primary |-> lay.primary_isa, all |-> lay.all_isa_families,
                    is_multi_isa |-> Len(lay.all_isa_families) > 1 ],
          structure |-> [ header_type |-> lay.header_type,
                          trailer_type |-> lay.trailer_type,
                          num_sections |-> Len(actual_sections),
                          num_code_sections |-> Len(code_sections),
                          code_bytes |-> SumSeq([i \in 1..Len(code_sections) |->
                                                   code_sections[i].size]) ],
          sections |-> actual_sections,
          generation |-> [seed |-> lay.seed, timestamp |-> timestamp] ]

\* the two files one run writes: the buffer pre-filled with 0xFF, the
\* sections written with rng = Random(seed), then the trailer
Assemble(lay, header_time, json_time) ==
    LET image == <<Bytes("fill", "", 255, 0, lay.total_size)>>
        filled == WriteSections(Assembly(image, Random(lay.seed), <<>>), lay,
                                lay.sections, header_time)
        final == WriteTrailer(filled, lay)
    IN  [ bin |-> final.image,
          json |-> Metadata(lay, final.image, final.actual_sections, json_time) ]

\* the wall clock, in seconds
Times == {1700000000, 1700000060}

NoAsm == <<>>

\* one run of generate_single_image on the returned layout, which is run
\* twice: the clock is read when the header is generated and again when the
\* sidecar is written
generate_single_image ==
    /\ pc = "returned"
    /\ Len(asm) < 2
    /\ \E header_time \in Times, json_time \in Times :
          /\ header_time <= json_time
          /\ asm' = Append(asm, Assemble(layout, header_time, json_time))
    /\ UNCHANGED <<blob_index, config, call, rng, pc, loc, layout, batch, stages>>

-----------------------------------------------------------------------------
(* layout.py: LayoutEngine.generate_batch                                  *)

\* the arguments of a generate_layout call
Call(seq, primary_isa, forced_secondaries) ==
    [seq |-> seq, primary_isa |-> primary_isa, forced_secondaries |-> forced_secondaries]

NoCall == Call(0, None, NoList)

\* count // num_families without the floor of 1
base_per_unfloored(count, num_families) == count \div num_families

\* max(1, count // num_families)
base_per(count, num_families) == Max(1, count \div num_families)

\* int(remainder * weight / total_weight)
Extra(remainder, weight, total_weight) == (remainder * weight) \div total_weight

\* the rounding leftovers dropped
LeftoverDropped(count, allocated) == 0

\* count - allocated, the images the rounding left over
Leftover(count, allocated) == count - allocated

\* sorted(self._family_weights, key=lambda x: x[1], reverse=True): a stable
\* sort, heaviest first
sorted_fams ==
    LET n == Len(_family_weights)
        Before(j, i) ==
            \/ _family_weights[j][2] > _family_weights[i][2]
            \/ _family_weights[j][2] = _family_weights[i][2] /\ j < i
        Rank(i) == 1 + Cardinality({j \in 1..n : Before(j, i)})
    IN  [k \in 1..n |-> _family_weights[CHOOSE i \in 1..n : Rank(i) = k]]

\* phase 1: quotas[fam], in the order of _family_weights
Quotas(count) ==
    LET n == Len(_family_weights)
        base == base_per(count, n)
        remainder == count - base * n
        total_weight == SumSeq([i \in 1..n |-> _family_weights[i][2]])
        extra == [i \in 1..n |->
                    IF remainder > 0
                    THEN Extra(remainder, _family_weights[i][2], total_weight)
                    ELSE 0]
        leftover == IF remainder > 0
                    THEN Leftover(count, base * n + SumSeq(extra))
                    ELSE 0
        Turns(fam) == Cardinality({k \in 0..(leftover - 1) :
                                      sorted_fams[(k % n) + 1][1] = fam})
    IN  [i \in 1..n |-> base + extra[i] + Turns(_family_weights[i][1])]

\* n times x
Repeat(x, n) == [i \in 1..n |-> x]

\* a generate_layout call still to make, and the label it is made for
Todo(primary_isa, forced_secondaries, label) ==
    [primary_isa |-> primary_isa, forced_secondaries |-> forced_secondaries,
     label |-> label]

\* the calls of phase 1: for fam in families: for _ in range(quotas[fam])
RECURSIVE Phase1Calls(_, _)
Phase1Calls(quotas, i) ==
    IF i > Len(quotas) THEN <<>>
    ELSE Repeat(Todo(_family_weights[i][1], NoList, None), quotas[i])
           \o Phase1Calls(quotas, i + 1)

\* combo_counts: label -> number of layouts
combo_counts(layouts) ==
    [label \in {isa_label(layouts[i]) : i \in 1..Len(layouts)} |->
        Cardinality({i \in 1..Len(layouts) : isa_label(layouts[i]) = label})]

\* combo_primary: label -> primary of the first layout with that label
combo_primary(layouts) ==
    [label \in {isa_label(layouts[i]) : i \in 1..Len(layouts)} |->
        layouts[CHOOSE i \in 1..Len(layouts) :
                   /\ isa_label(layouts[i]) = label
                   /\ \A j \in 1..(i - 1) : isa_label(layouts[j]) # label].primary_isa]

\* label.split("+"): the family names between the "+" signs, the one sequence
\* of names that joins to the label
Split(label) ==
    CHOOSE names \in UNION {[1..n -> DOMAIN blob_index] :
                              n \in 1..Cardinality(DOMAIN blob_index)} :
        Join(names) = label

\* Python's order on two labels: '+' sorts before every character of a
\* family name, so labels compare as their sequences of names do
RECURSIVE NamesBefore(_, _)
NamesBefore(a, b) ==
    IF b = <<>> THEN FALSE
    ELSE IF a = <<>> THEN TRUE
    ELSE IF a[1] = b[1] THEN NamesBefore(Tail(a), Tail(b))
    ELSE (CHOOSE i \in 1..Len(SortedNames) : SortedNames[i] = a[1])
           < (CHOOSE i \in 1..Len(SortedNames) : SortedNames[i] = b[1])

\* sorted(combo_counts)
SortedLabels(labels) ==
    [k \in 1..Cardinality(labels) |->
        CHOOSE label \in labels :
            Cardinality({m \in labels : NamesBefore(Split(m), Split(label))}) = k - 1]

\* range(needed), needed = min_per_combo - combo_counts[label]
Needed(min_per_combo, have) == Max(0, min_per_combo - have)

\* the secondaries with the primary left in
Phase2SecondariesAll(label, primary) == Split(label)

\* secondaries = [f for f in combo_families if f != primary]
Phase2Secondaries(label, primary) ==
    SelectSeq(Split(label), LAMBDA f : f # primary)

\* the calls of phase 2: for label in sorted(combo_counts): needed layouts
\* with the label's primary and secondaries forced
RECURSIVE Phase2Calls(_, _, _)
Phase2Calls(labels, counts, primaries) ==
    IF labels = <<>> THEN <<>>
    ELSE LET label == Head(labels)
             primary == primaries[label]
         IN  Repeat(Todo(primary, Phase2Secondaries(label, primary), label),
                    Needed(config.min_images_per_combo, counts[label]))
               \o Phase2Calls(Tail(labels), counts, primaries)

\* random.shuffle(x): for i in reversed(range(1, len(x))): j = randbelow(i + 1)
RECURSIVE shuffle(_, _, _)
shuffle(x, i, r) ==
    IF i < 2 THEN x
    ELSE LET j == 1 + Below(Advance(r), i)
         IN  shuffle([x EXCEPT ![i] = x[j], ![j] = x[i]], i - 1, Advance(r))

NoBatch ==
    [ phase |-> None, count |-> 0, master_seed |-> 0, todo |-> <<>>,
      layouts |-> <<>>, seq |-> 0, label |-> None, combo_counts |-> <<>>,
      returned |-> <<>> ]

\* the generator of the image before, carried on to the next image
ImageRngCarried(master_seed, seq) == Advance(rng)

\* rng = Random(master_seed + seq)
ImageRng(master_seed, seq) == Random(master_seed + seq)

\* generate_batch, up to the first layout: the quotas
ComputeQuotas ==
    /\ batch.phase = "quotas"
    /\ batch' = [batch EXCEPT !.phase = "phase1",
                              !.todo = Phase1Calls(Quotas(batch.count), 1)]
    /\ UNCHANGED <<blob_index, config, call, rng, pc, loc, layout, asm, stages>>

\* rng = Random(master_seed + seq); generate_layout(rng, seq=seq, primary_isa=fam)
Phase1Call ==
    /\ batch.phase = "phase1"
    /\ pc = "idle"
    /\ batch.todo # <<>>
    /\ call' = Call(batch.seq, Head(batch.todo).primary_isa, NoList)
    /\ rng' = ImageRng(batch.master_seed, batch.seq)
    /\ pc' = "pick_isa"
    /\ batch' = [batch EXCEPT !.todo = Tail(batch.todo)]
    /\ UNCHANGED <<blob_index, config, loc, layout, asm, stages>>

\* layouts.append(layout); seq += 1
AppendLayout ==
    /\ batch.phase \in {"phase1", "phase2"}
    /\ pc = "returned"
    /\ batch' = [batch EXCEPT !.layouts = Append(batch.layouts, layout),
                              !.seq = batch.seq + 1]
    /\ pc' = "idle"
    /\ UNCHANGED <<blob_index, config, call, rng, loc, layout, asm, stages>>

\* phase 2, before its loop: count the combos of phase 1
CountCombos ==
    /\ batch.phase = "phase1"
    /\ pc = "idle"
    /\ batch.todo = <<>>
    /\ LET counts == combo_counts(batch.layouts)
       IN  batch' = [batch EXCEPT
                       !.phase = "phase2",
                       !.combo_counts = counts,
                       !.todo = Phase2Calls(SortedLabels(DOMAIN counts), counts,
                                            combo_primary(batch.layouts))]
    /\ UNCHANGED <<blob_index, config, call, rng, pc, loc, layout, asm, stages>>

\* generate_layout(rng, seq=seq, primary_isa=primary, forced_secondaries=secondaries)
Phase2Call ==
    /\ batch.phase = "phase2"
    /\ pc = "idle"
    /\ batch.todo # <<>>
    /\ call' = Call(batch.seq, Head(batch.todo).primary_isa,
                    Head(batch.todo).forced_secondaries)
    /\ rng' = ImageRng(batch.master_seed, batch.seq)
    /\ pc' = "pick_isa"
    /\ batch' = [batch EXCEPT !.todo = Tail(batch.todo),
                              !.label = Head(batch.todo).label]
    /\ UNCHANGED <<blob_index, config, loc, layout, asm, stages>>

\* shuffle_rng = Random(master_seed); shuffle_rng.shuffle(layouts); return
ShuffleAndReturn ==
    /\ batch.phase = "phase2"
    /\ pc = "idle"
    /\ batch.todo = <<>>
    /\ batch' = [batch EXCEPT
                   !.phase = "done",
                   !.layouts = shuffle(batch.layouts, Len(batch.layouts),
                                       Random(batch.master_seed))]
    /\ UNCHANGED <<blob_index, config, call, rng, pc, loc, layout, asm, stages>>

\* a second generate_batch(count, master_seed) call on the same engine, with
\* the arguments of the first; the list the first call returned is kept
generate_batch_again ==
    /\ batch.phase = "done"
    /\ batch.returned = <<>>
    /\ batch' = [NoBatch EXCEPT !.phase = "quotas", !.count = batch.count,
                                !.master_seed = batch.master_seed,
                                !.returned = <<batch.layouts>>]
    /\ UNCHANGED <<blob_index, config, call, rng, pc, loc, layout, asm, stages>>

-----------------------------------------------------------------------------
(* Specifications                                                          *)

\* generate_batch is called with count in 1..MaxCount
MaxCount == 4
\* config.min_images_per_combo is at most MaxMinPerCombo
MaxMinPerCombo == 2
\* generate_batch is called with master_seed in config.seed + (0..MaxSeedOffset)
MaxSeedOffset == 1

\* FirmwareGenConfig: seed, size range, multi-ISA probability (per cent),
\* images-per-combo floor, families (None = all families)
Configs ==
    { [ seed |-> 42, min_size |-> 128, max_size |-> 256 * pages,
        multi_isa_probability |-> p, min_images_per_combo |-> m,
        families |-> NoList ] :
        pages \in 1..MaxPages, p \in {0, 50, 100}, m \in {MaxMinPerCombo} }

\* --families: not given, or a list of family names
Whitelists == {NoList, <<"thumb">>}

\* main builds the config from the command line and hands it to the
\* LayoutEngine; config.families is read once, to warn about requested
\* families the index lacks
BatchConfigs ==
    { [c EXCEPT !.min_images_per_combo = m, !.families = w] :
        c \in {d \in Configs : d.max_size = 256 * MaxPages}, m \in 0..MaxMinPerCombo,
        w \in Whitelists }

\* a family of the database for which the index holds no blob: the first, in
\* the order of the names, of those a scan may find
Absent ==
    LET missing == SortedSeq(DOMAIN BlobCatalogue \ DOMAIN blob_index)
    IN  IF missing = <<>> THEN {} ELSE {missing[1]}

\* the calls of generate_layout: with the defaults, as phase 1 makes them (a
\* primary with blobs) and as phase 2 makes them (secondaries forced), and
\* with a forced primary or a forced secondary that has no blob
Calls ==
    LET with_blobs == {_family_weights[i][1] : i \in 1..Len(_family_weights)}
    IN  { Call(n, p, fs) :
            n \in 0..MaxSeq, p \in {None} \cup with_blobs, fs \in {NoList, <<>>} }
        \cup
        { c \in { Call(n, p, <<f>>) :
                    n \in 0..MaxSeq, p \in with_blobs, f \in with_blobs \cup Absent } :
            c.forced_secondaries # <<c.primary_isa>> }
        \cup
        { Call(n, p, <<>>) : n \in 0..MaxSeq, p \in Absent }

\* one generate_layout call with rng = Random(config.seed + seq), then the
\* runs of generate_single_image on its layout
Init ==
    /\ blob_index \in BlobIndexes
    /\ config \in Configs
    /\ call \in Calls
    /\ rng = Random(config.seed + call.seq)
    /\ pc = "pick_isa"
    /\ loc = NoLoc
    /\ layout = NoLayout
    /\ asm = NoAsm
    /\ batch = NoBatch
    /\ executor = NoExecutor
    /\ extraction = NoExtraction

Next ==
    \/ PickIsa
    \/ PickHeaderTrailerSize
    \/ BudgetCode
    \/ CodeLoopBody
    \/ CodeLoopExit
    \/ FillLoopBody
    \/ FillLoopExit
    \/ Finish
    \/ generate_single_image

Spec == Init /\ [][Next]_vars

\* one generate_batch(count, master_seed) call
InitBatch ==
    /\ blob_index \in BlobIndexes
    /\ config \in BatchConfigs
    /\ call = NoCall
    /\ rng = 0
    /\ pc = "idle"
    /\ loc = NoLoc
    /\ layout = NoLayout
    /\ asm = NoAsm
    /\ \E count \in 1..MaxCount, offset \in 0..MaxSeedOffset :
          batch = [NoBatch EXCEPT !.phase = "quotas", !.count = count,
                                  !.master_seed = config.seed + offset]
    /\ executor = NoExecutor
    /\ extraction = NoExtraction

NextBatch ==
    \/ ComputeQuotas
    \/ Phase1Call
    \/ PickIsa
    \/ PickHeaderTrailerSize
    \/ BudgetCode
    \/ CodeLoopBody
    \/ CodeLoopExit
    \/ FillLoopBody
    \/ FillLoopExit
    \/ Finish
    \/ AppendLayout
    \/ CountCombos
    \/ Phase2Call
    \/ ShuffleAndReturn

SpecBatch == InitBatch /\ [][NextBatch]_vars

\* two generate_batch calls with the same arguments
NextRepeat ==
    \/ NextBatch
    \/ generate_batch_again

SpecRepeat == InitBatch /\ [][NextRepeat]_vars

-----------------------------------------------------------------------------
(* Properties of the returned layout (Spec)                                *)

\* sum(s.size for s in layout.sections)
SizeSum(lay) == SumSeq([i \in 1..Len(lay.sections) |-> lay.sections[i].size])

\* where the last section ends
LastEnd(lay) ==
    LET last == lay.sections[Len(lay.sections)] IN last.offset + last.size

\* the positions of the code sections
CodeAt(lay) == {i \in 1..Len(lay.sections) : lay.sections[i].section_type = "code"}

\* C1: the section sizes of every returned layout sum to total_size, and the
\* last section ends exactly at total_size.
C1_SizesSumToTotalSize ==
    pc = "returned" =>
        /\ SizeSum(layout) = layout.total_size
        /\ LastEnd(layout) = layout.total_size

\* C2: when trailer_type is not none, the final section is the trailer, of
\* the declared size of its kind (crc32 4, md5 16, sha256 32), at offset
\* total_size - trailer_size.
C2_TrailerIsFinalSection ==
    pc = "returned" /\ layout.trailer_type # "none" =>
        LET last == layout.sections[Len(layout.sections)]
            declared == [crc32 |-> 4, md5 |-> 16, sha256 |-> 32]
        IN  /\ last.section_type = "trailer"
            /\ last.size = declared[layout.trailer_type]
            /\ last.offset = layout.total_size - declared[layout.trailer_type]

\* C3: the .bin file every run of generate_single_image writes has exactly
\* total_size bytes: no section write makes the buffer longer or shorter.
C3_BinHasTotalSize ==
    \A i \in 1..Len(asm) : Length(asm[i].bin) = layout.total_size

\* C4: two runs on the same layout write the same image bytes and the same
\* JSON sidecar, whatever the clock shows during each run.
C4_RunsAreIdentical ==
    Len(asm) = 2 => asm[1].bin = asm[2].bin /\ asm[1].json = asm[2].json

\* C5: the sections of every returned layout are in strictly increasing
\* offset order, the first starts at offset 0, every size is positive, and
\* each section starts exactly where the one before it ends.
C5_SectionsContiguous ==
    pc = "returned" =>
        LET s == layout.sections
        IN  /\ s # <<>>
            /\ s[1].offset = 0
            /\ \A i \in 1..Len(s) : s[i].size > 0
            /\ \A i \in 1..(Len(s) - 1) :
                  /\ s[i].offset < s[i + 1].offset
                  /\ s[i].offset + s[i].size = s[i + 1].offset

\* a returned layout with a header, code of two families, padding between
\* them, a non-code section and a trailer
C5_Witness ==
    /\ pc = "returned"
    /\ Len(layout.sections) >= 6
    /\ layout.sections[1].section_type = "header"
    /\ layout.sections[Len(layout.sections)].section_type = "trailer"
    /\ Cardinality({layout.sections[i].isa_family : i \in CodeAt(layout)}) >= 2

\* the bytes missing at cursor to the next multiple of alignment
Missing(cursor, alignment) == (alignment - (cursor % alignment)) % alignment

\* a step of the code loop that emits a code section puts it at the next
\* multiple of the family's alignment, behind a 0xFF padding of exactly the
\* missing bytes when there are any
CodeEmittedAligned ==
    pc = "code_loop" /\ Len(loc'.sections) > Len(loc.sections) =>
        LET old == Len(loc.sections)
            new == loc'.sections
            alignment == ISA_FAMILIES[loc.family_queue[1]].alignment
            missing == Missing(loc.cursor, alignment)
            at == old + (IF missing > 0 THEN 2 ELSE 1)
            code == new[at]
        IN  /\ Len(new) >= at
            /\ code.section_type = "code"
            /\ code.isa_family = loc.family_queue[1]
            /\ code.offset = loc.cursor + missing
            /\ missing > 0 =>
                  /\ new[old + 1].section_type = "padding"
                  /\ new[old + 1].offset = loc.cursor
                  /\ new[old + 1].size = missing
                  /\ new[old + 1].fill_params.fill_byte = 255

\* C6: every code section of a returned layout has offset mod alignment = 0
\* for its recorded alignment, and a code section emitted at an unaligned
\* cursor is preceded by a 0xFF padding section of exactly the missing length.
C6_CodeSectionsAligned ==
    /\ [](pc = "returned" =>
            \A i \in CodeAt(layout) :
                layout.sections[i].offset % layout.sections[i].alignment = 0)
    /\ [][CodeEmittedAligned]_vars

\* a returned layout in which an alignment padding precedes a code section
C6_Witness ==
    /\ pc = "returned"
    /\ \E i \in CodeAt(layout) :
          /\ i > 1
          /\ layout.sections[i - 1].section_type = "padding"
          /\ layout.sections[i - 1].offset % layout.sections[i].alignment # 0
          /\ layout.sections[i - 1].size < layout.sections[i].alignment
          /\ layout.sections[i - 1].fill_params.fill_byte = 255

\* C7: every code section of a returned layout carries a non-empty
\* isa_family that is one of the layout's all_isa_families, and its alignment
\* is the one the ISA-family database declares for that family.
C7_CodeSectionFamily ==
    pc = "returned" =>
        \A i \in CodeAt(layout) :
            LET section == layout.sections[i]
            IN  /\ section.isa_family \notin {None, ""}
                /\ section.isa_family \in SeqToSet(layout.all_isa_families)
                /\ section.isa_family \in DOMAIN ISA_FAMILIES
                /\ section.alignment = ISA_FAMILIES[section.isa_family].alignment

\* a returned layout with code sections of families of different alignments
C7_Witness ==
    /\ pc = "returned"
    /\ \E i \in CodeAt(layout), j \in CodeAt(layout) :
          /\ layout.sections[i].isa_family # layout.sections[j].isa_family
          /\ layout.sections[i].alignment # layout.sections[j].alignment

-----------------------------------------------------------------------------
(* Properties of the returned batch (SpecBatch)                            *)

\* the layouts of the returned list with the given label
WithLabel(label) ==
    {i \in 1..Len(batch.layouts) : isa_label(batch.layouts[i]) = label}

\* the top-up layouts phase 2 adds: for every label of phase 1, what it has
\* less than min_images_per_combo
TopUps ==
    LET labels == SortedLabels(DOMAIN batch.combo_counts)
    IN  SumSeq([k \in 1..Len(labels) |->
                  Max(0, config.min_images_per_combo - batch.combo_counts[labels[k]])])

\* C8, as stated: generate_batch(count, master_seed) returns exactly count
\* layouts.
C8_ReturnsExactlyCount ==
    batch.phase = "done" => Len(batch.layouts) = batch.count

\* C8, as the code has it: generate_batch returns at least count layouts:
\* max(count, number of families with blobs) from phase 1 and, for every
\* label of phase 1, the layouts it has less than min_images_per_combo.
C8_ReturnsQuotasAndTopUps ==
    batch.phase = "done" =>
        /\ Len(batch.layouts) >= batch.count
        /\ Len(batch.layouts) = Max(batch.count, Len(_family_weights)) + TopUps

\* a returned batch larger than count, for both reasons
C8_Witness ==
    /\ batch.phase = "done"
    /\ batch.count < Len(_family_weights)
    /\ TopUps > 0
    /\ Len(batch.layouts) > batch.count

\* C9: every isa_label of the returned list is on at least
\* min_images_per_combo layouts; every top-up layout of phase 2 has exactly
\* the label it was generated for; phase 2 adds no label phase 1 did not
\* produce.
C9_ComboFloor ==
    /\ batch.phase = "done" =>
          \A i \in 1..Len(batch.layouts) :
              Cardinality(WithLabel(isa_label(batch.layouts[i])))
                  >= config.min_images_per_combo
    /\ batch.phase = "phase2" /\ pc = "returned" => isa_label(layout) = batch.label
    /\ batch.phase \in {"phase2", "done"} =>
          \A i \in 1..Len(batch.layouts) :
              isa_label(batch.layouts[i]) \in DOMAIN batch.combo_counts

\* a returned batch in which phase 2 topped up a multi-ISA label
C9_Witness ==
    /\ batch.phase = "done"
    /\ \E i \in 1..Len(batch.layouts) :
          /\ Len(batch.layouts[i].all_isa_families) >= 2
          /\ batch.combo_counts[isa_label(batch.layouts[i])]
                < config.min_images_per_combo
          /\ Cardinality(WithLabel(isa_label(batch.layouts[i])))
                > batch.combo_counts[isa_label(batch.layouts[i])]

\* C10: for every family with at least one blob in the index, the returned
\* list has a layout with that family as primary_isa, also when count is
\* smaller than the number of families.
C10_EveryFamilyIsPrimary ==
    batch.phase = "done" =>
        \A family \in DOMAIN blob_index :
            blob_count(family) >= 1 =>
                \E i \in 1..Len(batch.layouts) :
                    batch.layouts[i].primary_isa = family

\* a returned batch for a count smaller than the number of families
C10_Witness ==
    /\ batch.phase = "done"
    /\ batch.count < Cardinality(DOMAIN blob_index)
    /\ Cardinality({batch.layouts[i].primary_isa : i \in 1..Len(batch.layouts)})
          = Cardinality(DOMAIN blob_index)

-----------------------------------------------------------------------------
(* Properties of generate_single_image: trailer and sidecar                *)

\* where the trailer of a layout is stored: total_size - trailer size
TrailerOffset(lay) == lay.total_size - _get_trailer_size(lay.trailer_type)

\* the trailer recomputed over the bytes of a finished image before
\* TrailerOffset
Recomputed(lay, image) ==
    LET trailer_result ==
            generate_trailer(lay.trailer_type, Prefix(image, TrailerOffset(lay)))
    IN  <<Bytes("digest", lay.trailer_type, trailer_result.value, 0,
                trailer_result.len)>>

\* C11: in every finished image with a trailer, the declared checksum
\* recomputed over image[:total_size - trailer_size] is exactly
\* image[total_size - trailer_size:]: the trailer was computed over that
\* prefix after all other sections were written, and stored at that offset.
C11_TrailerRoundTrip ==
    \A i \in 1..Len(asm) :
        layout.trailer_type # "none" =>
            Suffix(asm[i].bin, TrailerOffset(layout)) = Recomputed(layout, asm[i].bin)

\* the sections of a sidecar label byte p of the image
Labelled(sections, p) ==
    \E k \in 1..Len(sections) :
        /\ sections[k].offset <= p
        /\ p < sections[k].offset + sections[k].size

\* the sections of a sidecar label every byte of [0, total): byte 0 and the
\* byte behind the end of every section, where a gap would begin
Covers(sections, total) ==
    \A p \in {0} \cup {sections[k].offset + sections[k].size : k \in 1..Len(sections)} :
        p < total => Labelled(sections, p)

\* C12: the sections recorded in the JSON sidecar of every image label every
\* byte of [0, total_size), whatever the header type, also when the header
\* generator returns fewer or more bytes than the layout reserved.
C12_SidecarLabelsEveryByte ==
    \A i \in 1..Len(asm) : Covers(asm[i].json.sections, layout.total_size)

-----------------------------------------------------------------------------
(* Properties of generate_layout: forced combos and the header             *)

\* the families a call forces: its primary_isa and forced_secondaries
Forced(c) ==
    (IF c.primary_isa = None THEN {} ELSE {c.primary_isa})
      \cup (IF c.forced_secondaries = NoList THEN {}
            ELSE SeqToSet(c.forced_secondaries))

\* C13: a call that forces a family for which the index holds no blob
\* returns no layout that lists that family in all_isa_families (the image
\* is skipped).
C13_ForcedFamilyWithoutBlobsSkipped ==
    pc = "returned" =>
        \A f \in Forced(call) :
            blob_count(f) = 0 => f \notin SeqToSet(layout.all_isa_families)

-----------------------------------------------------------------------------
(* build_firmware.py: main, phase 4 (the assembly stage)                   *)

\* layouts dispatched to the pool are at most MaxTasks
MaxTasks == 3

\* config.parallel_jobs is at most MaxJobs
MaxJobs == 2

\* a submitted future: the image of its task, where its worker stands
\* (submitted, running, returned, raised) and whether as_completed has
\* yielded it
Future(image_id) == [image_id |-> image_id, state |-> "submitted", yielded |-> FALSE]

\* FirmwareManifestBuilder.add_result
add_result(manifest_builder, result) ==
    IF result.success
    THEN [manifest_builder EXCEPT !.results = Append(@, result)]
    ELSE [manifest_builder EXCEPT !.errors = Append(@, result)]

\* the record generate_single_image returns
WorkerResult(image_id) == [success |-> TRUE, image_id |-> image_id]

\* except Exception as e, with the exception dropped
OnWorkerErrorDropped(manifest_builder, e) == manifest_builder

\* except Exception as e: the failure is recorded
OnWorkerError(manifest_builder, e) ==
    add_result(manifest_builder, [success |-> FALSE, error |-> e])

\* the futures whose worker is running
Running == {t \in 1..Len(executor.futures) : executor.futures[t].state = "running"}

\* executor.submit(generate_single_image, t) for every task
Submit(n, jobs) ==
    [ phase |-> "running",
      max_workers |-> jobs,
      futures |-> [t \in 1..n |-> Future(ImageId(config.seed, t - 1))],
      manifest_builder |-> [results |-> <<>>, errors |-> <<>>],
      completed |-> 0,
      summary |-> [total_generated |-> 0, total_failed |-> 0] ]

\* a free worker of the pool takes a submitted task
WorkerStart ==
    /\ executor.phase = "running"
    /\ Cardinality(Running) < executor.max_workers
    /\ \E t \in 1..Len(executor.futures) :
          /\ executor.futures[t].state = "submitted"
          /\ executor' = [executor EXCEPT !.futures[t].state = "running"]
    /\ UNCHANGED <<blob_index, config, call, rng, pc, loc, layout, asm, batch,
                   extraction>>

\* generate_single_image returns its record
WorkerReturn ==
    /\ executor.phase = "running"
    /\ \E t \in Running :
          executor' = [executor EXCEPT !.futures[t].state = "returned"]
    /\ UNCHANGED <<blob_index, config, call, rng, pc, loc, layout, asm, batch,
                   extraction>>

\* generate_single_image raises
WorkerRaise ==
    /\ executor.phase = "running"
    /\ \E t \in Running :
          executor' = [executor EXCEPT !.futures[t].state = "raised"]
    /\ UNCHANGED <<blob_index, config, call, rng, pc, loc, layout, asm, batch,
                   extraction>>

\* one iteration of  for future in as_completed(futures)
Collect ==
    /\ executor.phase = "running"
    /\ \E t \in 1..Len(executor.futures) :
          LET future == executor.futures[t]
          IN  /\ future.state \in {"returned", "raised"}
              /\ ~future.yielded
              /\ executor' = [executor EXCEPT
                    !.futures[t].yielded = TRUE,
                    !.completed = @ + 1,
                    !.manifest_builder =
                        IF future.state = "returned"
                        THEN add_result(@, WorkerResult(future.image_id))
                        ELSE OnWorkerError(@, "worker error")]
    /\ UNCHANGED <<blob_index, config, call, rng, pc, loc, layout, asm, batch,
                   extraction>>

\* the pool has drained: manifest_builder.save writes the summary
Save ==
    /\ executor.phase = "running"
    /\ \A t \in 1..Len(executor.futures) : executor.futures[t].yielded
    /\ executor' = [executor EXCEPT
          !.phase = "saved",
          !.summary = [total_generated |-> Len(executor.manifest_builder.results),
                       total_failed |-> Len(executor.manifest_builder.errors)]]
    /\ UNCHANGED <<blob_index, config, call, rng, pc, loc, layout, asm, batch,
                   extraction>>

\* main, phase 4: the layouts are dispatched to the pool
InitPool ==
    /\ blob_index \in BlobIndexes
    /\ config \in {c \in Configs : c.max_size = 256 /\ c.multi_isa_probability = 0}
    /\ call = NoCall
    /\ rng = 0
    /\ pc = "idle"
    /\ loc = NoLoc
    /\ layout = NoLayout
    /\ asm = NoAsm
    /\ batch = NoBatch
    /\ \E n \in 1..MaxTasks, jobs \in 1..MaxJobs : executor = Submit(n, jobs)
    /\ extraction = NoExtraction

NextPool ==
    \/ WorkerStart
    \/ WorkerReturn
    \/ WorkerRaise
    \/ Collect
    \/ Save

SpecPool == InitPool /\ [][NextPool]_vars

-----------------------------------------------------------------------------
(* Properties of the assembly stage (SpecPool)                             *)

\* the futures whose worker ended in the given state
Ended(state) ==
    {t \in 1..Len(executor.futures) : executor.futures[t].state = state}

\* C14: every dispatched task yields exactly one manifest record: at any
\* time the records are as many as the futures collected, and once the pool
\* has drained the successes are the tasks whose worker returned, the
\* failures are as many as the workers that raised, and total_generated +
\* total_failed is the number of layouts dispatched.
C14_OneRecordPerTask ==
    LET results == executor.manifest_builder.results
        errors == executor.manifest_builder.errors
    IN  /\ Len(results) + Len(errors) = executor.completed
        /\ executor.completed =
              Cardinality({t \in 1..Len(executor.futures) : executor.futures[t].yielded})
        /\ executor.phase = "saved" =>
              /\ {results[i].image_id : i \in 1..Len(results)}
                    = {executor.futures[t].image_id : t \in Ended("returned")}
              /\ Len(results) = Cardinality(Ended("returned"))
              /\ Len(errors) = Cardinality(Ended("raised"))
              /\ executor.summary.total_generated + executor.summary.total_failed
                    = Len(executor.futures)

\* a drained pool in which a worker raised and two others returned
C14_Witness ==
    /\ executor.phase = "saved"
    /\ Len(executor.manifest_builder.errors) >= 1
    /\ Len(executor.manifest_builder.results) >= 2

-----------------------------------------------------------------------------
(* Properties of generate_batch: image ids and determinism (SpecBatch)     *)

\* sub_dir / f"{image_id}.bin" and sub_dir / f"{image_id}.json", below
\* firmware_dir, with sub_dir = firmware_dir / isa_label
bin_path(lay) == isa_label(lay) \o "/" \o lay.image_id \o ".bin"
json_path(lay) == isa_label(lay) \o "/" \o lay.image_id \o ".json"

\* C15: the layouts of one batch, those of phase 1 and of phase 2 together,
\* have pairwise distinct image_ids, hence pairwise distinct .bin and .json
\* paths: no two workers write the same file.
C15_DistinctImageIds ==
    \A i, j \in 1..Len(batch.layouts) :
        i # j =>
            /\ batch.layouts[i].image_id # batch.layouts[j].image_id
            /\ bin_path(batch.layouts[i]) # bin_path(batch.layouts[j])
            /\ json_path(batch.layouts[i]) # json_path(batch.layouts[j])

\* a returned batch with top-ups of phase 2, two of its layouts in the same
\* directory
C15_Witness ==
    /\ batch.phase = "done"
    /\ Len(batch.layouts) > batch.count
    /\ \E i, j \in 1..Len(batch.layouts) :
          i # j /\ isa_label(batch.layouts[i]) = isa_label(batch.layouts[j])

\* C16: when a family whitelist is configured, every layout of the returned
\* batch has its primary_isa and all of its all_isa_families inside the
\* whitelist, whatever other families the index holds.
C16_WhitelistRespected ==
    batch.phase = "done" /\ config.families # NoList =>
        \A i \in 1..Len(batch.layouts) :
            /\ batch.layouts[i].primary_isa \in SeqToSet(config.families)
            /\ SeqToSet(batch.layouts[i].all_isa_families)
                  \subseteq SeqToSet(config.families)

-----------------------------------------------------------------------------
(* Properties of generate_layout: forced secondaries, the header section   *)

\* C17: a layout returned for forced_secondaries = [] has all_isa_families =
\* [primary_isa], and one returned for forced_secondaries = L has
\* all_isa_families = [primary_isa] followed by exactly L, whatever
\* multi_isa_probability and the generator's seed are; a forced primary_isa
\* is the layout's primary_isa.
C17_ForcedSecondariesExact ==
    pc = "returned" /\ call.forced_secondaries # NoList =>
        /\ layout.all_isa_families = <<layout.primary_isa>> \o call.forced_secondaries
        /\ call.forced_secondaries = <<>> => Len(layout.all_isa_families) = 1
        /\ call.primary_isa # None => layout.primary_isa = call.primary_isa

\* a single-ISA layout returned for forced_secondaries = [] from an index of
\* several families with multi_isa_probability 1.0, where the generator left
\* alone adds a secondary
C17_Witness ==
    /\ pc = "returned"
    /\ call.forced_secondaries = <<>>
    /\ config.multi_isa_probability = 100
    /\ Cardinality(DOMAIN blob_index) >= 2
    /\ layout.all_isa_families = <<layout.primary_isa>>
    /\ AllFamiliesUnforced(layout.primary_isa, <<>>,
                           PrimaryIsa(call.primary_isa,
                                      Random(config.seed + call.seq)).rng).v
          # <<layout.primary_isa>>

\* the indices of the header sections of a layout
HeaderAt(lay) ==
    {i \in 1..Len(lay.sections) : lay.sections[i].section_type = "header"}

\* C20: every returned layout has at most one header section; when there is
\* one it is the first section, at offset 0, and there is one exactly when
\* the size reserved for the layout's header type is greater than 0 (none
\* for bare).
C20_SingleHeaderAtZero ==
    pc = "returned" =>
        /\ Cardinality(HeaderAt(layout)) <= 1
        /\ \A i \in HeaderAt(layout) :
              /\ i = 1
              /\ layout.sections[i].offset = 0
              /\ layout.sections[i].size = HeaderSize(layout.header_type)
        /\ HeaderAt(layout) # {} <=> HeaderSize(layout.header_type) > 0
        /\ layout.header_type = "bare" => HeaderAt(layout) = {}

\* a returned bare layout: no header section, its first section at offset 0
C20_Witness ==
    /\ pc = "returned"
    /\ layout.header_type = "bare"
    /\ HeaderAt(layout) = {}
    /\ layout.sections # <<>>
    /\ layout.sections[1].offset = 0

-----------------------------------------------------------------------------
(* Properties of generate_batch: two calls (SpecRepeat)                    *)

-----------------------------------------------------------------------------
(* extractor.py: _extract_single and BlobExtractor.extract_all             *)

\* the oracle output holds at most MaxObjects object files of a firmware triple
MaxObjects == 2

\* triple -> family, for the triples of the object files below
TRIPLE_TO_FAMILY == [t \in {"armv7-unknown-linux-gnueabihf"} |-> "arm32"]

EXCLUDED_TRIPLES == {"wasm32-wasi"}

\* an object file below oracle_output_dir: the parts of its relative path
ObjectFile(parts) == [parts |-> parts]

\* sorted(oracle_output_dir.rglob("*.o")): k object files of a firmware
\* triple, then with others one of an excluded triple, one of a triple no
\* family has and one too high in the tree
ObjectFiles(k, others) ==
    [i \in 1..k |-> ObjectFile(<<"armv7-unknown-linux-gnueabihf", "O2",
                                 "prog" \o ToString(i) \o ".o">>)]
    \o (IF others
        THEN << ObjectFile(<<"stray.o">>),
                ObjectFile(<<"wasm32-wasi", "O2", "prog1.o">>),
                ObjectFile(<<"zz-unknown-none", "O2", "prog1.o">>) >>
        ELSE <<>>)

\* the object files extract_all makes a task of
Discovered(o_file) ==
    /\ Len(o_file.parts) >= 3
    /\ o_file.parts[1] \notin EXCLUDED_TRIPLES
    /\ o_file.parts[1] \in DOMAIN TRIPLE_TO_FAMILY

\* the task of an object file: elf_path, output_path, force
Task(o_file, force) ==
    [ elf_path |-> o_file.parts,
      output_path |-> <<TRIPLE_TO_FAMILY[o_file.parts[1]]>> \o o_file.parts,
      force |-> force ]

\* an output file in objects_dir: its size, and whether its mtime is at
\* least that of the object file
File(size, fresh) == [exists |-> TRUE, size |-> size, fresh |-> fresh]

\* not output_path.exists()
NoFile == [exists |-> FALSE, size |-> 0, fresh |-> FALSE]

\* what the output path may hold before extraction
Outputs == {NoFile, File(8, TRUE), File(8, FALSE)}

\* what the run of llvm-objcopy, or the worker around it, may come to:
\* exit 0 with a .text, exit 0 with an empty .text, a non-zero exit, no exit
\* within 30 seconds, or an error creating the output directory
Outcomes == {"ok", "empty", "exit_nonzero", "timeout", "mkdir_error"}

\* the records _extract_single returns
Extracted(task, size, cached) ==
    [ source |-> task.elf_path, output |-> task.output_path, success |-> TRUE,
      cached |-> cached, error |-> None, size_bytes |-> size ]

Failed(task, error) ==
    [ source |-> task.elf_path, output |-> None, success |-> FALSE,
      cached |-> FALSE, error |-> error, size_bytes |-> 0 ]

\* an exception that leaves the worker
Raised == [ success |-> FALSE, cached |-> FALSE, output |-> None, raised |-> TRUE ]

\* a timeout that leaves the worker as an exception
OnTimeoutRaised(task) == Raised

\* except subprocess.TimeoutExpired
OnTimeout(task) == Failed(task, "Timeout")

\* _extract_single(task) with the output path holding file and the tool
\* run, if it comes to one, ending in outcome: the record returned and what
\* the output path holds afterwards
_extract_single(task, file, outcome) ==
    IF ~task.force /\ file.exists /\ file.fresh /\ file.size > 0
    THEN [result |-> Extracted(task, file.size, TRUE), file |-> file]
    ELSE CASE outcome = "mkdir_error" -> [result |-> Raised, file |-> file]
           [] outcome = "timeout" -> [result |-> OnTimeout(task), file |-> file]
           [] outcome = "exit_nonzero" ->
                [result |-> Failed(task, "stderr"), file |-> file]
           [] outcome = "empty" ->
                [result |-> Failed(task, "Empty .text section"), file |-> NoFile]
           [] OTHER ->
                [result |-> Extracted(task, 16, FALSE), file |-> File(16, TRUE)]

NoFuture == [state |-> "submitted", outcome |-> None, result |-> None, yielded |-> FALSE]

\* the futures whose worker is running
Extracting ==
    {t \in 1..Len(extraction.futures) : extraction.futures[t].state = "running"}

\* extract_all up to the pool: the tasks are discovered; without tasks it
\* returns (0, 0, 0), with tasks every one is submitted
Discover ==
    /\ extraction.phase = "discover"
    /\ LET found == SelectSeq(extraction.o_files, Discovered)
           tasks == [i \in 1..Len(found) |-> Task(found[i], extraction.force)]
       IN  extraction' =
              IF tasks = <<>>
              THEN [extraction EXCEPT !.phase = "returned", !.returned = <<0, 0, 0>>]
              ELSE [extraction EXCEPT !.phase = "running", !.tasks = tasks,
                                      !.total = Len(tasks),
                                      !.futures = [i \in 1..Len(tasks) |-> NoFuture]]
    /\ UNCHANGED <<blob_index, config, call, rng, pc, loc, layout, asm, batch,
                   executor>>

\* a free worker of the pool takes a submitted task
ExtractStart ==
    /\ extraction.phase = "running"
    /\ Cardinality(Extracting) < extraction.max_workers
    /\ \E t \in 1..Len(extraction.futures) :
          /\ extraction.futures[t].state = "submitted"
          /\ extraction' = [extraction EXCEPT !.futures[t].state = "running"]
    /\ UNCHANGED <<blob_index, config, call, rng, pc, loc, layout, asm, batch,
                   executor>>

\* a worker runs _extract_single on its task
ExtractRun ==
    /\ extraction.phase = "running"
    /\ \E t \in Extracting, outcome \in Outcomes :
          LET done == _extract_single(extraction.tasks[t], extraction.disk[t], outcome)
          IN  extraction' = [extraction EXCEPT
                 !.futures[t].state = "done",
                 !.futures[t].outcome =
                     IF done.result.success /\ done.result.cached
                     THEN "cached" ELSE outcome,
                 !.futures[t].result = done.result,
                 !.disk[t] = done.file]
    /\ UNCHANGED <<blob_index, config, call, rng, pc, loc, layout, asm, batch,
                   executor>>

\* one iteration of  for i, future in enumerate(as_completed(futures), 1):
\* future.result() raises what the worker raised, and extract_all with it
ExtractCollect ==
    /\ extraction.phase = "running"
    /\ \E t \in 1..Len(extraction.futures) :
          LET future == extraction.futures[t]
              result == future.result
          IN  /\ future.state = "done"
              /\ ~future.yielded
              /\ extraction' =
                    IF result = Raised
                    THEN [extraction EXCEPT !.futures[t].yielded = TRUE,
                                            !.phase = "raised"]
                    ELSE [extraction EXCEPT
                            !.futures[t].yielded = TRUE,
                            !.success = IF result.success THEN @ + 1 ELSE @,
                            !.cached = IF result.success /\ result.cached
                                       THEN @ + 1 ELSE @,
                            !.failed = IF result.success THEN @ ELSE @ + 1]
    /\ UNCHANGED <<blob_index, config, call, rng, pc, loc, layout, asm, batch,
                   executor>>

\* return total, success, cached
ExtractReturn ==
    /\ extraction.phase = "running"
    /\ \A t \in 1..Len(extraction.futures) : extraction.futures[t].yielded
    /\ extraction' = [extraction EXCEPT
          !.phase = "returned",
          !.returned = <<extraction.total, extraction.success, extraction.cached>>]
    /\ UNCHANGED <<blob_index, config, call, rng, pc, loc, layout, asm, batch,
                   executor>>

\* main, phase 1: extract_all(oracle_output_dir, objects_dir, jobs, force)
InitExtract ==
    /\ blob_index = <<>>
    /\ config \in {c \in Configs : c.max_size = 256 /\ c.multi_isa_probability = 0}
    /\ call = NoCall
    /\ rng = 0
    /\ pc = "idle"
    /\ loc = NoLoc
    /\ layout = NoLayout
    /\ asm = NoAsm
    /\ batch = NoBatch
    /\ executor = NoExecutor
    /\ \E k \in 0..MaxObjects, others \in BOOLEAN, force \in BOOLEAN,
          jobs \in 1..MaxJobs :
        \E disk \in [1..k -> Outputs] :
          extraction =
             [ phase |-> "discover", o_files |-> ObjectFiles(k, others),
               force |-> force, max_workers |-> jobs, tasks |-> <<>>,
               futures |-> <<>>, disk |-> disk, total |-> 0, success |-> 0,
               cached |-> 0, failed |-> 0, returned |-> None ]

NextExtract ==
    \/ Discover
    \/ ExtractStart
    \/ ExtractRun
    \/ ExtractCollect
    \/ ExtractReturn

SpecExtract == InitExtract /\ [][NextExtract]_vars

-----------------------------------------------------------------------------
(* Properties of extract_all (SpecExtract)                                 *)

\* the futures of extract_all that ended in one of the states
Outcome(states) ==
    {t \in 1..Len(extraction.futures) : extraction.futures[t].outcome \in states}

\* C19: in extract_all a non-zero exit of the tool, a timeout or an empty
\* .text output fails the one object file it happens to (no output is
\* reported for it, and a zero-byte output is deleted) and raises nothing, so
\* every other file is still extracted and counted; the returned triple has
\* cached <= success <= total, total being the number of discovered tasks.
C19_FailureIsolated ==
    /\ \A t \in Outcome({"exit_nonzero", "timeout", "empty"}) :
          /\ extraction.futures[t].result # Raised
          /\ extraction.futures[t].result.success = FALSE
          /\ extraction.futures[t].result.output = None
    /\ \A t \in Outcome({"empty"}) : ~extraction.disk[t].exists
    /\ \A t \in Outcome({"ok"}) :
          /\ extraction.futures[t].result.success = TRUE
          /\ extraction.disk[t].exists /\ extraction.disk[t].size > 0
    /\ extraction.phase = "raised" => Outcome({"mkdir_error"}) # {}
    /\ extraction.phase = "returned" =>
          LET total == extraction.returned[1]
              success == extraction.returned[2]
              cached == extraction.returned[3]
          IN  /\ cached <= success /\ success <= total
              /\ total = Len(SelectSeq(extraction.o_files, Discovered))
              /\ total = Len(extraction.futures)
              /\ Outcome({None}) = {}
              /\ success = Cardinality(Outcome({"ok", "cached"}))
              /\ cached = Cardinality(Outcome({"cached"}))
              /\ total - success
                    = Cardinality(Outcome({"exit_nonzero", "timeout", "empty"}))

\* extract_all returned (2, 1, 0): the tool wrote an empty output for one
\* object file, which was deleted, and the other file was extracted
C19_Witness ==
    /\ extraction.phase = "returned"
    /\ extraction.returned = <<2, 1, 0>>
    /\ \E t \in Outcome({"empty"}) :
          /\ ~extraction.disk[t].exists
          /\ \E u \in Outcome({"ok"}) : u > t

-----------------------------------------------------------------------------
(* Properties of generate_layout: families, budgets, code sections (Spec)  *)

\* ImageLayout.is_multi_isa
is_multi_isa(lay) == Len(lay.all_isa_families) > 1

\* C21: in every returned layout primary_isa is a member of
\* all_isa_families, which has at least one element: exactly one for a
\* single-ISA image (no secondaries forced or drawn), two or more for a
\* multi-ISA image.
C21_PrimaryAmongFamilies ==
    pc = "returned" =>
        /\ Len(layout.all_isa_families) >= 1
        /\ layout.primary_isa \in SeqToSet(layout.all_isa_families)
        /\ is_multi_isa(layout) <=> Len(layout.all_isa_families) >= 2
        /\ ~is_multi_isa(layout) <=> layout.all_isa_families = <<layout.primary_isa>>
        /\ call.forced_secondaries = NoList /\ config.multi_isa_probability = 0
              => ~is_multi_isa(layout)
        /\ call.forced_secondaries \notin {NoList, <<>>} => is_multi_isa(layout)

\* a returned multi-ISA layout whose secondaries the generator drew
C21_Witness ==
    /\ pc = "returned"
    /\ call.forced_secondaries = NoList
    /\ is_multi_isa(layout)
    /\ layout.primary_isa = layout.all_isa_families[1]

\* step 5b sets the budgets: with less than 64 usable bytes the total size
\* becomes header_est + trailer_size + 256 and the usable budget 256
BudgetSet ==
    pc = "budget" /\ pc' = "code_loop" =>
        LET header_est == loc.cursor
            usable == loc.total_size - header_est - loc.trailer_size
            after == loc'.total_size - header_est - loc.trailer_size
        IN  /\ usable < 64 =>
                  /\ loc'.total_size = header_est + loc.trailer_size + 256
                  /\ loc'.code_remaining + loc'.noncode_budget = 256
            /\ usable >= 64 => loc'.total_size = loc.total_size
            /\ after >= 64
            /\ loc'.code_remaining + loc'.noncode_budget = after
            /\ loc'.cursor = header_est /\ loc'.trailer_size = loc.trailer_size

\* C22: when total_size - header_est - trailer_size < 64, generate_layout
\* replaces the total size by header_est + trailer_size + 256 and the usable
\* budget is 256; every returned layout has total_size - header_est -
\* trailer_size >= 64, and code_budget + noncode_budget is that difference.
C22_SmallImageExtended ==
    /\ [][BudgetSet]_vars
    /\ [](pc = "returned" =>
            layout.total_size - HeaderSize(layout.header_type)
                - _TRAILER_SIZES[layout.trailer_type] >= 64)

\* a returned layout that was extended: header, 256 usable bytes and
\* trailer make a total above config.max_size
C22_Witness ==
    /\ pc = "returned"
    /\ layout.total_size = HeaderSize(layout.header_type)
                              + _TRAILER_SIZES[layout.trailer_type] + 256
    /\ layout.total_size > config.max_size

-----------------------------------------------------------------------------
(* Properties of generate_batch: code of every listed family (SpecBatch)   *)

\* C23: in every layout generate_batch returns, each family listed in
\* all_isa_families, hence named in isa_label, has at least one code section
\* of that isa_family; in particular the primary_isa has one.
C23_EveryListedFamilyHasCode ==
    batch.phase = "done" =>
        \A i \in 1..Len(batch.layouts) :
            LET lay == batch.layouts[i]
            IN  \A f \in SeqToSet(lay.all_isa_families) :
                    \E k \in CodeAt(lay) : lay.sections[k].isa_family = f

-----------------------------------------------------------------------------
(* Properties of generate_layout: non-code sizes, code budget, rotation    *)

\* the least size of a non-code section of a kind
NonCodeLow(kind) ==
    CASE kind = "padding" -> 16
      [] kind = "string_table" -> 64
      [] kind = "filesystem" -> 512
      [] kind = "random" -> 32
      [] kind = "rodata" -> 64
      [] OTHER -> 16

\* the greatest size of a non-code section of a kind, remaining being the
\* non-code budget it is drawn for
NonCodeHigh(kind, remaining) ==
    CASE kind = "padding" -> Min(65536, Max(64, remaining \div 10))
      [] kind = "string_table" -> Min(4096, remaining)
      [] kind = "filesystem" -> Min(65536, remaining)
      [] kind = "random" -> Min(8192, remaining)
      [] kind = "rodata" -> Min(16384, remaining)
      [] OTHER -> Min(1024, remaining)

\* a step of the code loop or of the fill loop that places a non-code
\* section places one of a size inside its kind's range
NonCodePlacedInRange ==
    pc \in {"code_loop", "fill_loop"} /\ pc' \in {"code_loop", "fill_loop"}
        /\ Len(loc'.sections) > Len(loc.sections) =>
        LET placed == loc'.sections[Len(loc'.sections)]
        IN  placed.section_type # "code" =>
                /\ placed.size >= NonCodeLow(placed.section_type)
                /\ placed.size <= NonCodeHigh(placed.section_type, loc.noncode_budget)

\* C24: every non-code section drawn from the non-code distribution and
\* placed in a layout, interleaved after a code section or by the fill loop,
\* has a size inside its kind's range: at least 16 for padding, 64 for a
\* string table, 512 for a filesystem, 32 for random, 64 for rodata, and at
\* most the kind's upper bound.
C24_NonCodeSizesInRange == [][NonCodePlacedInRange]_vars

-----------------------------------------------------------------------------
(* Properties of generate_single_image: the uboot header (Spec)            *)

\* IsaFamily.typical_base_addr of the families of the blob catalogue
typical_base_addr == [arm32 |-> 0, thumb |-> 134217728, x86 |-> 31744, avr |-> 0]

\* the big-endian u32 fields of the uboot header that the layout determines,
\* by their offset in struct.pack(">IIIIIIIBBBB32s", ...): magic, data_size,
\* load_addr and ep
uboot_fields(total_size, base_addr) ==
    [at \in {0, 12, 16, 20} |->
        CASE at = 0 -> 654645590
          [] at = 12 -> Max(0, total_size - 64)
          [] OTHER -> base_addr]

\* the run of the buffer that holds byte number at, and where in its byte
\* string that byte is
RECURSIVE RunAt(_, _)
RunAt(image, at) ==
    IF image = <<>> THEN [run |-> Bytes("none", "", 0, 0, 0), off |-> 0]
    ELSE IF at < image[1].n THEN [run |-> image[1], off |-> image[1].off + at]
    ELSE RunAt(Tail(image), at - image[1].n)

\* struct.unpack(">I", image[at : at + 4]) where the four bytes are a field
\* of a uboot header of lay, -1 where they are not
U32BE(image, at, lay) ==
    LET found == RunAt(image, at)
        fields == uboot_fields(lay.total_size, typical_base_addr[lay.primary_isa])
    IN  IF /\ found.run.kind = "header" /\ found.run.name = "uboot"
           /\ found.off \in DOMAIN fields
           /\ found.run.off + found.run.n >= found.off + 4
        THEN fields[found.off]
        ELSE -1

\* C25: in an image whose header type is uboot, bytes 0..3 read as a
\* big-endian u32 are 0x27051956 and the four bytes from byte 16 on read as
\* a big-endian u32 are total_size - 64, total_size being the layout's final
\* total size.
C25_UbootMagicAndSize ==
    pc = "returned" /\ layout.header_type = "uboot" =>
        \A i \in 1..Len(asm) :
            /\ U32BE(asm[i].bin, 0, layout) = 654645590
            /\ U32BE(asm[i].bin, 16, layout) = layout.total_size - 64

-----------------------------------------------------------------------------
(* Properties of generate_layout: the code budget and the rotation (Spec)  *)

\* the bytes of the code sections of a list of sections
CodeBytes(sections) ==
    SumSeq([i \in 1..Len(sections) |->
              IF sections[i].section_type = "code" THEN sections[i].size ELSE 0])

\* the sections a step of generate_layout appends
Appended == SubSeq(loc'.sections, Len(loc.sections) + 1, Len(loc'.sections))

\* a step of the code loop that emits a code section emits one of at most
\* the remaining code budget, and takes its size off that budget
CodeWithinRemaining ==
    pc = "code_loop" /\ pc' \in {"code_loop", "fill_loop"}
        /\ Len(loc'.sections) > Len(loc.sections) =>
        /\ CodeBytes(Appended) <= loc.code_remaining
        /\ loc'.code_remaining = loc.code_remaining - CodeBytes(Appended)
        /\ loc'.code_remaining >= 0

\* C26: each code section is at most the code budget remaining when it is
\* emitted, a larger blob being cut to that remainder also after the
\* rounding to the alignment, so the code sections of a layout total at most
\* code_budget, which is at most 0.70 of the usable size.
C26_CodeWithinBudget ==
    /\ [][CodeWithinRemaining]_vars
    /\ [](pc \in {"code_loop", "fill_loop", "finish"} =>
            10 * (CodeBytes(loc.sections) + loc.code_remaining)
                <= 7 * (loc.total_size - HeaderSize(loc.header_type) - loc.trailer_size))
    /\ [](pc = "returned" =>
            10 * CodeBytes(layout.sections)
                <= 7 * (layout.total_size - HeaderSize(layout.header_type)
                          - _TRAILER_SIZES[layout.trailer_type]))

\* a returned layout with a code section cut to the remaining budget: its
\* size is no multiple of its alignment
C26_Witness ==
    /\ pc = "returned"
    /\ \E k \in CodeAt(layout) :
          layout.sections[k].size % layout.sections[k].alignment # 0

\* the families of the code sections of a layout, in the order of the sections
CodeFamilies(lay) ==
    LET code == SelectSeq(lay.sections, LAMBDA x : x.section_type = "code")
    IN  [k \in 1..Len(code) |-> code[k].isa_family]

\* the families of a layout the index holds blobs for, in their order
WithBlobs(lay) ==
    SelectSeq(lay.all_isa_families, LAMBDA f : get_blobs(f) # <<>>)

\* C27: the code sections are emitted round-robin over all_isa_families:
\* with n families, all with blobs, code section number k (from 0) is of
\* family all_isa_families[k mod n], so the first is of primary_isa; a
\* family without blobs drops out of the rotation and the others keep their
\* order.
C27_RoundRobin ==
    pc = "returned" =>
        LET rotation == WithBlobs(layout)
            code == CodeFamilies(layout)
        IN  /\ \A k \in 1..Len(code) :
                  /\ rotation # <<>>
                  /\ code[k] = rotation[((k - 1) % Len(rotation)) + 1]
            /\ rotation = layout.all_isa_families /\ code # <<>> =>
                  code[1] = layout.primary_isa

\* a returned layout of two families, both with blobs, with three code
\* sections or more
C27_Witness ==
    /\ pc = "returned"
    /\ Len(layout.all_isa_families) = 2
    /\ Len(CodeFamilies(layout)) >= 3
    /\ WithBlobs(layout) = layout.all_isa_families
    /\ CodeFamilies(layout)[3] = layout.primary_isa

-----------------------------------------------------------------------------
(* Properties of _pick_secondary_isas (Spec)                               *)

\* the families of the affinity list of primary that have blobs
AffineWithBlobs(primary) ==
    IF primary \in DOMAIN MULTI_ISA_AFFINITY
    THEN {e[1] : e \in {x \in SeqToSet(MULTI_ISA_AFFINITY[primary]) : blob_count(x[1]) > 0}}
    ELSE {}

\* the families other than primary that have blobs
OthersWithBlobs(primary) == {f \in DOMAIN blob_index : blob_count(f) > 0} \ {primary}

\* what the claim says of the secondaries picked for a primary
SecondariesAsStated(primary, secondaries) ==
    LET picked == SeqToSet(secondaries)
    IN  /\ Len(secondaries) <= 2
        /\ Cardinality(picked) = Len(secondaries)
        /\ primary \notin picked
        /\ \A f \in picked : blob_count(f) > 0
        /\ picked \subseteq (IF AffineWithBlobs(primary) # {}
                              THEN AffineWithBlobs(primary)
                              ELSE OthersWithBlobs(primary))
        /\ secondaries = <<>> <=> OthersWithBlobs(primary) = {}

\* C28: _pick_secondary_isas returns one or two pairwise distinct families,
\* none the primary and each with a blob in the index, taken from the
\* affinity entries of the primary that have blobs or, when none has, from
\* the other families with blobs; it returns the empty list only when no
\* family but the primary has blobs.  It holds of the call made for every
\* family of the database from the generator states step 2 is reached and
\* left with, and of the secondaries of every returned layout that drew them.
C28_SecondariesPicked ==
    /\ pc \in {"pick_isa", "pick_header"} =>
          \A primary \in DOMAIN BlobCatalogue :
              SecondariesAsStated(primary, _pick_secondary_isas(primary, rng).v)
    /\ pc = "returned" /\ call.forced_secondaries = NoList /\ is_multi_isa(layout) =>
          SecondariesAsStated(layout.primary_isa, Tail(layout.all_isa_families))

\* a returned layout with two secondaries drawn for a primary whose affinity
\* entries have no blobs
C28_Witness ==
    /\ pc = "returned"
    /\ call.forced_secondaries = NoList
    /\ Len(layout.all_isa_families) = 3
    /\ AffineWithBlobs(layout.primary_isa) = {}

-----------------------------------------------------------------------------
(* Properties of generate_batch: per-image seeds (SpecBatch)               *)

\* C29: in generate_batch(count, master_seed) the layout of sequence index k
\* is drawn from a generator seeded with master_seed + k, records seed =
\* master_seed + k and has image_id fw_{master_seed}_{k in 6 digits}; the
\* indices run from 0 on through phase 1 and phase 2, so the seeds of a
\* batch are pairwise distinct.
C29_PerImageSeed ==
    batch.phase \in {"phase1", "phase2", "done"} =>
        /\ pc = "pick_isa" =>
              /\ call.seq = batch.seq
              /\ rng = Random(batch.master_seed + call.seq)
        /\ pc = "returned" =>
              /\ layout.seed = batch.master_seed + call.seq
              /\ layout.image_id = ImageId(batch.master_seed, call.seq)
        /\ batch.phase # "done" =>
              \A k \in 1..Len(batch.layouts) :
                  batch.layouts[k].seed = batch.master_seed + (k - 1)
        /\ \A i, j \in 1..Len(batch.layouts) :
              i # j => batch.layouts[i].seed # batch.layouts[j].seed

-----------------------------------------------------------------------------
(* Termination of generate_layout (SpecTerminates)                         *)

\* the steps of generate_layout
generate_layout ==
    \/ PickIsa
    \/ PickHeaderTrailerSize
    \/ BudgetCode
    \/ CodeLoopBody
    \/ CodeLoopExit
    \/ FillLoopBody
    \/ FillLoopExit
    \/ Finish

\* one generate_layout call for the greatest size range, where the loops
\* run longest
InitTerminates ==
    /\ Init
    /\ config.max_size = 256 * MaxPages
    /\ config.multi_isa_probability = 50

\* a call that is not interrupted: the interpreter keeps taking its next step
SpecTerminates ==
    InitTerminates /\ [][generate_layout]_vars /\ WF_vars(generate_layout)

\* an iteration of the code loop emits a code section of 4 bytes or more and
\* takes its size off code_remaining, or drops a family from the rotation,
\* or leaves the loop; an iteration of the fill loop takes 16 bytes or more
\* off noncode_budget, or leaves the loop
LoopProgress ==
    /\ pc = "code_loop" /\ loc.code_remaining >= 64 =>
          \/ /\ pc' = "code_loop"
             /\ CodeBytes(Appended) >= 4
             /\ loc'.code_remaining = loc.code_remaining - CodeBytes(Appended)
          \/ /\ pc' = "code_loop"
             /\ Len(loc'.family_queue) < Len(loc.family_queue)
          \/ pc' = "fill_loop"
    /\ pc = "fill_loop" =>
          \/ /\ pc' = "fill_loop"
             /\ loc'.noncode_budget <= loc.noncode_budget - 16
          \/ pc' = "finish"

\* C30: generate_layout terminates for every blob index and configuration:
\* every call returns, each iteration of the code loop emitting a code
\* section of at least 4 bytes off code_remaining, dropping a family from
\* the rotation or leaving the loop, and each iteration of the fill loop
\* taking at least 16 bytes off noncode_budget or leaving the loop.
C30_LayoutTerminates ==
    /\ <>(pc = "returned")
    /\ [][LoopProgress]_vars

\* a returned layout whose code loop dropped a family without blobs and
\* emitted two code sections, and whose fill loop placed a section
C30_Witness ==
    /\ pc = "returned"
    /\ WithBlobs(layout) # layout.all_isa_families
    /\ Len(CodeFamilies(layout)) >= 2
    /\ \E k \in 1..Len(layout.sections) :
          /\ layout.sections[k].section_type \in {"string_table", "rodata", "random"}
          /\ \A j \in CodeAt(layout) : j < k

====
